---- MODULE Spec2Model ----
(***************************************************************************)
(* The entity-resolution and cross-reference engine of the Fantasy Grounds *)
(* MERP module generator: the catalog indices with source priority, the    *)
(* layered name matcher, the template synthesizer (copy_for_modification)  *)
(* and the identifier allocators / name_to_id registry of the generators.  *)
(*                                                                         *)
(* Python values are modelled by tagged records, so that values of         *)
(* different Python types are always comparable:                           *)
(*   str  -> [str  |-> <<chars>>]     int  -> [int |-> n]                  *)
(*   None -> [none |-> TRUE]          bool -> [bool |-> b]                 *)
(*   dict -> [dict |-> f], f a function from key strings to Python values  *)
(* A Python string is a sequence of one-character strings; a dict key is a *)
(* TLA+ string.  Entry dicts live in a heap (address -> dict contents), so *)
(* that two references to one dict are one address.                        *)
(*                                                                         *)
(* Specifications: SpecIndex (index construction), SpecSynth (one call of  *)
(* the synthesizer), SpecMatch (one call of the matcher), SpecCase (calls  *)
(* of the matcher on names that differ in letter case), SpecSimilarity     *)
(* (calls of the similarity function), SpecCustom (customization through   *)
(* the matcher), SpecLoad (loading the catalog and the reference files),   *)
(* Spec (the NPC, item and parcel generators on any content) and SpecMain  *)
(* (the whole run of fg_generator.main on one module, validation pass      *)
(* included).                                                              *)
(***************************************************************************)
EXTENDS Integers, Sequences, FiniteSets, TLC

VARIABLES
    heap,          \* address -> contents of the entry dict stored there
    loaded,        \* the heap as it was just after the catalog was loaded
    lib,           \* which library an index-construction run builds: "npc" / "item"
    files,         \* the reference files on disk: file name -> its state or its data
    reference,     \* ReferenceLibrary (generator): the dictionaries load_all fills
    verbose,       \* args.verbose, handed to the validator and every generator
    errors,        \* ModuleValidator.errors, in the order logged
    content,       \* ModuleLoader: stories, encounters, npcs, items, parcels, images
    encounter_npcs, \* NPCGenerator.generate: the dict encounter_npcs, insertion order
    all_entries,   \* _build_indexes: the list all_entries (addresses, load order)
    pos,           \* position of the running loop: indexing, or a section's entries
    npc_ix,        \* CompleteNPCCreatureLibrary: by_name, by_name_all, by_profession
    item_ix,       \* CompleteItemLibrary: by_name, by_name_all
    counters,      \* generator counters: next_id of each allocator
    name_to_id,    \* loader.name_to_id: kind -> (display name -> identifier)
    allocated,     \* history: kind -> sequence of the identifiers returned so far
    customs,       \* the entities copy_for_modification returned: address, base, inputs
    emitted,       \* elements appended to the output, in order
    warnings,      \* warnings printed so far
    phase,         \* the phase of fg_generator.main that is running
    ret            \* the last call and what it returned

vars == <<heap, loaded, lib, files, reference, verbose, errors, content, encounter_npcs, all_entries, pos, npc_ix, item_ix, counters,
          name_to_id, allocated, customs, emitted, warnings, phase, ret>>

(***************************************************************************)
(* Bounds of the model.                                                    *)
(***************************************************************************)
MaxEntries == 2      \* catalog entries fed to one index construction
MaxNpcs == 2         \* NPC specifications processed in one run
MaxItems == 1        \* item specifications processed in one run
MaxParcels == 1      \* treasure parcels processed in one run
MaxEncounters == 1   \* encounters of a module
MaxStories == 1      \* stories of a module
MaxImages == 1       \* images of a module
MaxCalls == 2        \* calls of the similarity function in one behaviour

(***************************************************************************)
(* String literals.                                                        *)
(***************************************************************************)
S_Empty == << >>
S_CharacterLaw == <<"C", "h", "a", "r", "a", "c", "t", "e", "r", " ", "L", "a", "w">>
S_ArmsLaw == <<"A", "r", "m", "s", " ", "L", "a", "w">>
S_SpellLaw == <<"S", "p", "e", "l", "l", " ", "L", "a", "w">>
S_CreaturesTreasures == <<"C", "r", "e", "a", "t", "u", "r", "e", "s", " ", "&", " ", "T", "r", "e", "a", "s", "u", "r", "e", "s">>
S_Homebrew == <<"H", "o", "m", "e", "b", "r", "e", "w">>
S_Wolf == <<"W", "o", "l", "f">>
S_WOLF == <<"W", "O", "L", "F">>
S_Orc == <<"O", "r", "c">>
S_Dragon == <<"D", "r", "a", "g", "o", "n">>
S_number == <<"n", "u", "m", "b", "e", "r">>
S_string == <<"s", "t", "r", "i", "n", "g">>
S_formattedtext == <<"f", "o", "r", "m", "a", "t", "t", "e", "d", "t", "e", "x", "t">>
S_token == <<"t", "o", "k", "e", "n">>
S_idCustom == <<"i", "d", "-", "c", "u", "s", "t", "o", "m", "-">>
S_None == <<"N", "o", "n", "e">>
S_True == <<"T", "r", "u", "e">>
S_False == <<"F", "a", "l", "s", "e">>
S_Level == <<" ", "L", "e", "v", "e", "l", " ">>
S_WarriorLevel15 == <<"W", "a", "r", "r", "i", "o", "r", " ", "L", "e", "v", "e", "l", " ", "1", "5">>
S_WarriorLevel05 == <<"W", "a", "r", "r", "i", "o", "r", " ", "L", "e", "v", "e", "l", " ", "0", "5">>
S_Warrior == <<"W", "a", "r", "r", "i", "o", "r">>
S_Skauril == <<"S", "k", "a", "u", "r", "i", "l">>
S_Warg == <<"W", "a", "r", "g">>
S_Guard == <<"G", "u", "a", "r", "d">>
S_Wolfe == <<"W", "o", "l", "f", "e">>
S_Broadsword == <<"B", "r", "o", "a", "d", "s", "w", "o", "r", "d">>
S_Sword == <<"S", "w", "o", "r", "d">>
S_Sting == <<"S", "t", "i", "n", "g">>
S_Fang == <<"F", "a", "n", "g">>
S_melee == <<"m", "e", "l", "e", "e">>
S_missile == <<"m", "i", "s", "s", "i", "l", "e">>
S_weapon == <<"w", "e", "a", "p", "o", "n">>
S_shield == <<"s", "h", "i", "e", "l", "d">>
S_Melee == <<"M", "e", "l", "e", "e">>
S_Missile == <<"M", "i", "s", "s", "i", "l", "e">>
S_Shield == <<"S", "h", "i", "e", "l", "d">>
S_Bow == <<"B", "o", "w">>
S_RefW15 == <<"n", "p", "c", ".", "w", "1", "5">>
S_RefW05 == <<"n", "p", "c", ".", "w", "0", "5">>
S_RefWolfAL == <<"n", "p", "c", ".", "w", "o", "l", "f", ".", "a", "l">>
S_RefWolfCT == <<"n", "p", "c", ".", "w", "o", "l", "f", ".", "c", "t">>
S_id == <<"i", "d", "-">>
S_OldFang == <<"O", "l", "d", " ", "F", "a", "n", "g">>
S_RefSword == <<"i", "t", "e", "m", ".", "b", "s">>
Digits == <<"0", "1", "2", "3", "4", "5", "6", "7", "8", "9">>
UpperLetters == <<"A", "B", "C", "D", "E", "F", "G", "H", "I", "J", "K", "L", "M", "N", "O", "P", "Q", "R", "S", "T", "U", "V", "W", "X", "Y", "Z">>
LowerLetters == <<"a", "b", "c", "d", "e", "f", "g", "h", "i", "j", "k", "l", "m", "n", "o", "p", "q", "r", "s", "t", "u", "v", "w", "x", "y", "z">>

(***************************************************************************)
(* Python values and the built-ins the code uses on them.                  *)
(***************************************************************************)
PyStr(s) == [str |-> s]
PyInt(n) == [int |-> n]
PyBool(b) == [bool |-> b]
PyNone == [none |-> TRUE]
PyDict(f) == [dict |-> f]
EmptyDict == [k \in {} |-> PyNone]

IsStr(v) == DOMAIN v = {"str"}
IsInt(v) == DOMAIN v = {"int"}
IsDict(v) == DOMAIN v = {"dict"}
IsNone(v) == DOMAIN v = {"none"}

\* d.get(key, default) on the contents d of a dict
Get(d, key, default) == IF key \in DOMAIN d THEN d[key] ELSE default

\* d[key] = value on the contents d of a dict
SetKey(d, key, value) == [k \in DOMAIN d \cup {key} |-> IF k = key THEN value ELSE d[k]]

\* del d[key]
DelKey(d, key) == [k \in DOMAIN d \ {key} |-> d[k]]

\* str.lower(), character by character
LowerChar(c) ==
    IF \E i \in DOMAIN UpperLetters : UpperLetters[i] = c
    THEN LowerLetters[CHOOSE i \in DOMAIN UpperLetters : UpperLetters[i] = c]
    ELSE c

Lower(s) == [i \in DOMAIN s |-> LowerChar(s[i])]

\* truthiness of a Python value
Truthy(v) ==
    IF IsNone(v) THEN FALSE
    ELSE IF IsStr(v) THEN v.str # S_Empty
    ELSE IF IsInt(v) THEN v.int # 0
    ELSE IF IsDict(v) THEN DOMAIN v.dict # {}
    ELSE v.bool

(***************************************************************************)
(* SOURCE_PRIORITY and _get_priority of the two libraries.                 *)
(***************************************************************************)
UnknownPriority == 999

NpcSourcePriority ==
    (S_CharacterLaw :> 1) @@ (S_ArmsLaw :> 2) @@ (S_SpellLaw :> 3)
        @@ (S_CreaturesTreasures :> 4)

ItemSourcePriority ==
    (S_ArmsLaw :> 1) @@ (S_CharacterLaw :> 2) @@ (S_SpellLaw :> 3)
        @@ (S_CreaturesTreasures :> 4)

SourcePriority(l) == IF l = "npc" THEN NpcSourcePriority ELSE ItemSourcePriority

\* self.SOURCE_PRIORITY.get(source, 999); source is a Python value
GetPriority(l, source) ==
    IF IsStr(source) /\ source.str \in DOMAIN SourcePriority(l)
    THEN SourcePriority(l)[source.str]
    ELSE UnknownPriority

\* entry.get('_source_module', '')
SourceOf(d) == Get(d, "_source_module", PyStr(S_Empty))

\* entry.get('_display_name', '').lower()
NameKey(d) == Lower(Get(d, "_display_name", PyStr(S_Empty)).str)

(***************************************************************************)
(* _build_indexes: the body of the indexing loop, for the entry at address *)
(* a of heap h, on the indices ix of library l.                            *)
(***************************************************************************)
EmptyIndex ==
    [by_name |-> [k \in {} |-> 0],
     by_name_order |-> << >>,
     by_name_all |-> [k \in {} |-> << >>],
     by_profession |-> [k \in {} |-> << >>]]

\* the comparison that decides whether a later entry replaces the canonical one
BetterPriorityOrEqual(new, old) == new <= old

BetterPriorityInverted(new, old) == new > old

BetterPriority(new, old) == new < old

\* by_name after the entry at a has been offered under key name
IndexCanonical(l, h, by_name, name, a) ==
    IF name \notin DOMAIN by_name
    THEN (name :> a) @@ by_name
    ELSE IF BetterPriority(GetPriority(l, SourceOf(h[a])),
                           GetPriority(l, SourceOf(h[by_name[name]])))
         THEN [by_name EXCEPT ![name] = a]
         ELSE by_name

\* by_name_all[name].append(entry)
IndexAll(by_name_all, name, a) ==
    IF name \notin DOMAIN by_name_all
    THEN (name :> <<a>>) @@ by_name_all
    ELSE [by_name_all EXCEPT ![name] = Append(@, a)]

\* by_profession[prof].append(entry), NPC library only
IndexProfession(l, h, by_prof, a) ==
    IF l = "npc" /\ "profession" \in DOMAIN h[a] /\ IsDict(h[a]["profession"])
    THEN LET prof == Get(h[a]["profession"].dict, "_text", PyStr(S_Empty))
         IN  IF Truthy(prof)
             THEN IF prof.str \notin DOMAIN by_prof
                  THEN (prof.str :> <<a>>) @@ by_prof
                  ELSE [by_prof EXCEPT ![prof.str] = Append(@, a)]
             ELSE by_prof
    ELSE by_prof

IndexOne(l, h, ix, a) ==
    LET name == NameKey(h[a])
    IN  [by_name |-> IF name # S_Empty
                     THEN IndexCanonical(l, h, ix.by_name, name, a)
                     ELSE ix.by_name,
         by_name_order |-> IF name # S_Empty /\ name \notin DOMAIN ix.by_name
                           THEN Append(ix.by_name_order, name)
                           ELSE ix.by_name_order,
         by_name_all |-> IF name # S_Empty
                         THEN IndexAll(ix.by_name_all, name, a)
                         ELSE ix.by_name_all,
         by_profession |-> IndexProfession(l, h, ix.by_profession, a)]

RECURSIVE BuildFrom(_, _, _, _, _)
BuildFrom(l, h, ix, entries, i) ==
    IF i > Len(entries) THEN ix
    ELSE BuildFrom(l, h, IndexOne(l, h, ix, entries[i]), entries, i + 1)

\* _build_indexes run to completion over the list entries
BuildIndexes(l, h, entries) == BuildFrom(l, h, EmptyIndex, entries, 1)

(***************************************************************************)
(* find_by_name(name, preferred_source): the address of the entry          *)
(* returned, 0 for None.                                                   *)
(***************************************************************************)
NoEntry == 0

RECURSIVE FirstFromSource(_, _, _, _)
FirstFromSource(h, versions, preferred, i) ==
    IF i > Len(versions) THEN NoEntry
    ELSE IF "_source_module" \in DOMAIN h[versions[i]]
            /\ h[versions[i]]["_source_module"] = preferred
         THEN versions[i]
         ELSE FirstFromSource(h, versions, preferred, i + 1)

\* "if x: return x", then "return y"
FirstFound(x, y) == IF x # NoEntry THEN x ELSE y

FindLower(h, ix, name_lower, preferred_source) ==
    FirstFound(IF Truthy(preferred_source)
               THEN FirstFromSource(h, Get(ix.by_name_all, name_lower, << >>),
                                    preferred_source, 1)
               ELSE NoEntry,
               Get(ix.by_name, name_lower, NoEntry))

find_by_name(h, ix, name, preferred_source) ==
    FindLower(h, ix, Lower(name), preferred_source)

(***************************************************************************)
(* Index construction, entry by entry, over an arbitrary list of entries   *)
(* (any names, any sources, any load order), followed by lookups.          *)
(***************************************************************************)
IndexNames == {S_Wolf, S_WOLF, S_Orc}

IndexSources == {PyStr(S_CharacterLaw), PyStr(S_ArmsLaw), PyStr(S_Homebrew), PyNone}

QueryNames == {S_Wolf, S_WOLF, S_Orc, S_Dragon}

\* a catalog entry as the JSON data holds it; a source of None stands for an
\* entry without the '_source_module' key
MkIndexEntry(name, source) ==
    IF IsNone(source)
    THEN ("_display_name" :> PyStr(name))
    ELSE ("_display_name" :> PyStr(name)) @@ ("_source_module" :> source)

IndexTemplates ==
    {MkIndexEntry(n, s) : n \in {S_Wolf, S_WOLF}, s \in IndexSources}
        \cup {MkIndexEntry(S_Orc, PyStr(S_CharacterLaw))}

PreferredSources == {PyNone, PyStr(S_ArmsLaw), PyStr(S_Homebrew)}

NoCall == [op |-> "none"]

\* the kinds of loader.name_to_id
Kinds == {"story", "encounter", "npc", "item", "parcel", "image"}

\* the counters of the generators: NPCGenerator.next_id, ItemGenerator's
\* item_next_id, parcel_next_id and parcel_item_entry_id,
\* and BattleGenerator's next_id and npc_next_id, StoryGenerator's next_id and
\* block_next_id, ImageGenerator's next_id
AllocKinds == {"npc", "item", "parcel", "parcel_item_entry", "encounter",
               "encounter_npc", "story", "story_block", "image"}

\* no reference file is looked at
NoFiles == [f \in {} |-> "missing"]

\* ReferenceLibrary.__init__ (generator): every dictionary is empty
NoReference ==
    [creature_library |-> {}, npc_library |-> {}, weapons_reference |-> {},
     accessories_reference |-> {}, herbs_reference |-> {}, food_reference |-> {},
     transport_reference |-> {}]

\* ModuleLoader.__init__: every list of the module is empty
NoContent ==
    [stories |-> << >>, encounters |-> << >>, npcs |-> << >>, items |-> << >>,
     parcels |-> << >>, images |-> << >>]

\* freshly constructed loader and generators
InitRun ==
    /\ counters = [k \in AllocKinds |-> 1]
    /\ name_to_id = [k \in Kinds |-> << >>]
    /\ allocated = [k \in AllocKinds |-> << >>]
    /\ customs = {}
    /\ emitted = << >>
    /\ warnings = << >>
    /\ ret = NoCall

InitIndex ==
    /\ lib \in {"npc", "item"}
    /\ \E n \in 1..MaxEntries :
          /\ heap \in [1..n -> IndexTemplates]
          /\ all_entries = [i \in 1..n |-> i]
    /\ loaded = heap
    /\ pos = 1
    /\ npc_ix = EmptyIndex
    /\ item_ix = EmptyIndex
    /\ phase = "load"
    /\ content = NoContent
    /\ files = NoFiles
    /\ reference = NoReference
    /\ verbose = FALSE
    /\ errors = << >>
    /\ encounter_npcs = << >>
    /\ InitRun

\* the index of the library under construction
CurIx == IF lib = "npc" THEN npc_ix ELSE item_ix

IndexDone == pos > Len(all_entries)

IndexNpcEntry ==
    /\ lib = "npc"
    /\ ~IndexDone
    /\ npc_ix' = IndexOne("npc", heap, npc_ix, all_entries[pos])
    /\ pos' = pos + 1
    /\ UNCHANGED <<heap, loaded, lib, files, reference, verbose, errors, content, encounter_npcs, all_entries, item_ix, counters, name_to_id,
                   allocated, customs, emitted, warnings, phase, ret>>

IndexItemEntry ==
    /\ lib = "item"
    /\ ~IndexDone
    /\ item_ix' = IndexOne("item", heap, item_ix, all_entries[pos])
    /\ pos' = pos + 1
    /\ UNCHANGED <<heap, loaded, lib, files, reference, verbose, errors, content, encounter_npcs, all_entries, npc_ix, counters, name_to_id,
                   allocated, customs, emitted, warnings, phase, ret>>

\* a lookup changes no index, so one lookup per behaviour shows them all
FindByName ==
    /\ IndexDone
    /\ ret = NoCall
    /\ \E q \in QueryNames, pref \in PreferredSources :
          ret' = [op |-> "find_by_name", name |-> q, preferred_source |-> pref,
                  result |-> find_by_name(heap, CurIx, q, pref)]
    /\ UNCHANGED <<heap, loaded, lib, files, reference, verbose, errors, content, encounter_npcs, all_entries, pos, npc_ix, item_ix, counters,
                   name_to_id, allocated, customs, emitted, warnings, phase>>

NextIndex == IndexNpcEntry \/ IndexItemEntry \/ FindByName

SpecIndex == InitIndex /\ [][NextIndex]_vars

(***************************************************************************)
(* Properties of index construction.                                       *)
(***************************************************************************)
\* positions of all_entries already indexed whose lowercase name is key
Indexed(key) == {i \in 1..(pos - 1) : NameKey(heap[all_entries[i]]) = key}

RankAt(i) == GetPriority(lib, SourceOf(heap[all_entries[i]]))

MinRank(key) == CHOOSE r \in {RankAt(i) : i \in Indexed(key)} :
                    \A i \in Indexed(key) : r <= RankAt(i)

SourcesOf(key) == {SourceOf(heap[all_entries[i]]) : i \in Indexed(key)}

\* C1: once the index is complete, find_by_name(name) without a preferred
\* source, for a name that occurs (case-insensitively) under two or more
\* sources, returns an entry whose source has the lowest priority rank among
\* all entries carrying that name, whatever the load order was.
C1_LowestRankWins ==
    (/\ ret.op = "find_by_name"
     /\ IsNone(ret.preferred_source)
     /\ Cardinality(SourcesOf(Lower(ret.name))) >= 2)
    => /\ ret.result # NoEntry
       /\ NameKey(heap[ret.result]) = Lower(ret.name)
       /\ GetPriority(lib, SourceOf(heap[ret.result])) = MinRank(Lower(ret.name))

\* the lookup of a name held by several sources returned an entry that was
\* not the first one loaded under that name: a replacement took place
C1_Witness ==
    /\ ret.op = "find_by_name"
    /\ IsNone(ret.preferred_source)
    /\ ret.name # Lower(ret.name)
    /\ Cardinality(SourcesOf(Lower(ret.name))) >= 2
    /\ ret.result # NoEntry
    /\ \E i \in Indexed(Lower(ret.name)) :
          /\ all_entries[i] < ret.result
          /\ RankAt(i) > GetPriority(lib, SourceOf(heap[ret.result]))

\* C2: at every point of index construction the canonical entry of a name is
\* the earliest-loaded entry among those of minimal rank: among entries of
\* equal rank the first loaded stays, and a later entry takes the slot only
\* with a strictly lower rank.
C2_EarliestLoadedWinsTies ==
    \A key \in DOMAIN CurIx.by_name :
        LET best == {i \in Indexed(key) : RankAt(i) = MinRank(key)}
            first == CHOOSE i \in best : \A j \in best : i <= j
        IN  CurIx.by_name[key] = all_entries[first]

\* two entries from two different sources unknown to the priority table (both
\* ranked 999) share a name and no better-ranked entry exists
C2_Witness ==
    /\ IndexDone
    /\ \E key \in DOMAIN CurIx.by_name :
          \E i, j \in Indexed(key) :
              /\ i < j
              /\ RankAt(i) = UnknownPriority
              /\ RankAt(j) = UnknownPriority
              /\ MinRank(key) = UnknownPriority
              /\ SourceOf(heap[all_entries[i]]) # SourceOf(heap[all_entries[j]])
              /\ CurIx.by_name[key] = all_entries[i]

(***************************************************************************)
(* String built-ins: str(), int(), repr(), str.replace, format specs.      *)
(***************************************************************************)
RECURSIVE NatStr(_)
NatStr(n) == IF n < 10 THEN <<Digits[n + 1]>>
             ELSE NatStr(n \div 10) \o <<Digits[(n % 10) + 1]>>

\* str(n) of an int
IntStr(n) == IF n < 0 THEN <<"-">> \o NatStr(0 - n) ELSE NatStr(n)

RECURSIVE ZeroPad(_, _)
ZeroPad(s, width) == IF Len(s) >= width THEN s ELSE ZeroPad(<<"0">> \o s, width)

\* f"{n:0{width}d}" for n >= 0
FormatZeroPadded(n, width) == ZeroPad(NatStr(n), width)

IsDigit(c) == \E i \in DOMAIN Digits : Digits[i] = c

DigitValue(c) == (CHOOSE i \in DOMAIN Digits : Digits[i] = c) - 1

\* whether int(s) succeeds (no ValueError) on a string of digits
IsNumeral(s) == Len(s) > 0 /\ \A i \in DOMAIN s : IsDigit(s[i])

RECURSIVE ParseNat(_)
ParseNat(s) == IF Len(s) = 0 THEN 0
               ELSE 10 * ParseNat(SubSeq(s, 1, Len(s) - 1)) + DigitValue(s[Len(s)])

\* s.replace(' ', '_')
ReplaceSpaces(s) == [i \in DOMAIN s |-> IF s[i] = " " THEN "_" ELSE s[i]]

\* repr() of a str
ReprStr(s) == <<"'">> \o s \o <<"'">>

\* repr() of a value that is not a dict
ReprScalar(v) ==
    IF IsStr(v) THEN ReprStr(v.str)
    ELSE IF IsInt(v) THEN IntStr(v.int)
    ELSE IF IsNone(v) THEN S_None
    ELSE IF v.bool THEN S_True ELSE S_False

\* the characters of a dict key
KeyChars(k) ==
    IF k = "@type" THEN <<"@", "t", "y", "p", "e">>
    ELSE IF k = "_text" THEN <<"_", "t", "e", "x", "t">>
    ELSE <<"?">>

\* the keys of a typed record in the order its literal lists them
RecordKeyOrder == <<"@type", "_text">>

RECURSIVE ReprItems(_, _)
ReprItems(d, i) ==
    IF i > Len(RecordKeyOrder) THEN << >>
    ELSE IF RecordKeyOrder[i] \in DOMAIN d
         THEN LET rest == ReprItems(d, i + 1)
                  item == ReprStr(KeyChars(RecordKeyOrder[i])) \o <<":", " ">>
                             \o ReprScalar(d[RecordKeyOrder[i]])
              IN  IF rest = << >> THEN item ELSE item \o <<",", " ">> \o rest
         ELSE ReprItems(d, i + 1)

\* str(value)
Str(v) ==
    IF IsStr(v) THEN v.str
    ELSE IF IsDict(v) THEN <<"{">> \o ReprItems(v.dict, 1) \o <<"}">>
    ELSE ReprScalar(v)

\* {'@type': type, '_text': text}
TypedRecord(type, text) == PyDict(("@type" :> PyStr(type)) @@ ("_text" :> PyStr(text)))

\* {'@type': type}: a typed record without a text value
TypedEmpty(type) == PyDict("@type" :> PyStr(type))

(***************************************************************************)
(* copy_for_modification of the NPC library.                               *)
(***************************************************************************)
number_fields == {"hp", "at", "db", "level", "baserate", "reach", "outlook"}

string_fields == {"profession", "race", "group", "subgroup", "abilities",
                  "description", "spells", "stats", "size"}

\* the type the table gives a field name (lines 284-290)
InferredType(key) == IF key \in number_fields THEN S_number ELSE S_string

\* the record is built from the table whatever the entry holds
NpcFieldByTable(d, key, text) == TypedRecord(InferredType(key), text)

\* the value of new_entry[key] once its text is to be text (lines 266-290)
NpcFieldWithText(d, key, text) ==
    IF key \in DOMAIN d /\ IsDict(d[key])
    THEN IF "_text" \in DOMAIN d[key].dict
         THEN PyDict(SetKey(d[key].dict, "_text", PyStr(text)))
         ELSE IF key \in number_fields THEN TypedRecord(S_number, text)
         ELSE IF key \in string_fields THEN TypedRecord(S_string, text)
         ELSE PyDict(("@type" :> Get(d[key].dict, "@type", PyStr(S_string)))
                         @@ ("_text" :> PyStr(text)))
    ELSE TypedRecord(InferredType(key), text)

\* the value of new_entry[key] after the override key: value is applied
NpcModField(d, key, value) == NpcFieldWithText(d, key, Str(value))

\* the entry is built from the overrides alone
ApplyNpcModsOnly(d, mods) == [k \in DOMAIN mods |-> NpcModField(d, k, mods[k])]

\* the loop over modifications.items(); mods is the contents of the dict
ApplyNpcMods(d, mods) ==
    [k \in DOMAIN d \cup DOMAIN mods |->
        IF k \in DOMAIN mods THEN NpcModField(d, k, mods[k]) ELSE d[k]]

\* new_entry[field]['_text'] = new_name when the field is a dict
RenameField(d, field, new_name) ==
    IF field \in DOMAIN d /\ IsDict(d[field])
    THEN SetKey(d, field, PyDict(SetKey(d[field].dict, "_text", PyStr(new_name))))
    ELSE d

\* f"id-custom-{new_name.lower().replace(' ', '_')}"
CustomId(new_name) == S_idCustom \o ReplaceSpaces(Lower(new_name))

\* the identity and provenance fields of an NPC copy (lines 244-257)
NpcIdentity(base, d, new_name) ==
    LET d1 == RenameField(RenameField(d, "name", new_name), "nonid_name", new_name)
        meta == ("_display_name" :> PyStr(new_name))
                @@ ("_id" :> PyStr(CustomId(new_name)))
                @@ ("_reference_path" :> PyNone)
                @@ ("_is_custom" :> PyBool(TRUE))
                @@ ("_based_on" :> Get(base, "_display_name", PyNone))
                @@ ("_based_on_path" :> Get(base, "_reference_path", PyNone))
                @@ ("_based_on_source" :> Get(base, "_source_module", PyNone))
    IN  meta @@ d1

\* "if modifications:" and the loop over them
NpcWithMods(d, mods) == IF Truthy(mods) THEN ApplyNpcMods(d, mods.dict) ELSE d

\* the dict copy_for_modification returns for the base contents base
NpcCopyContents(base, new_name, mods) ==
    NpcWithMods(NpcIdentity(base, base, new_name), mods)

(***************************************************************************)
(* copy_for_modification of the item library.                              *)
(***************************************************************************)
ItemIdentity(base, d, new_name) ==
    LET d1 == RenameField(RenameField(d, "name", new_name), "nonid_name", new_name)
        meta == ("_display_name" :> PyStr(new_name))
                @@ ("_id" :> PyStr(CustomId(new_name)))
                @@ ("_reference_path" :> PyNone)
                @@ ("_is_custom" :> PyBool(TRUE))
                @@ ("_based_on" :> Get(base, "_reference_path", PyNone))
                @@ ("_based_on_source" :> Get(base, "_source_module", PyNone))
    IN  meta @@ d1

\* new_entry[key] = value for every override
ApplyItemMods(d, mods) ==
    [k \in DOMAIN d \cup DOMAIN mods |-> IF k \in DOMAIN mods THEN mods[k] ELSE d[k]]

ItemWithMods(d, mods) == IF Truthy(mods) THEN ApplyItemMods(d, mods.dict) ELSE d

ItemCopyContents(base, new_name, mods) ==
    ItemWithMods(ItemIdentity(base, base, new_name), mods)

(***************************************************************************)
(* copy.deepcopy(base_entry): the copy lives at an address of its own.     *)
(***************************************************************************)
FreshAddr(h) == Len(h) + 1

\* the copy is the base object itself
AliasOfBase(h, base) == base

\* the address of new_entry
DeepCopyAddr(h, base) == FreshAddr(h)

\* the heap with contents d stored at address a
Store(h, a, d) == [x \in 1..(IF a > Len(h) THEN a ELSE Len(h)) |-> IF x = a THEN d ELSE h[x]]

\* the copy of the entry at address base, stored at address a
CopyAt(l, h, base, a, new_name, mods) ==
    [entry |-> a, base |-> base,
     heap |-> Store(h, a, IF l = "npc" THEN NpcCopyContents(h[base], new_name, mods)
                          ELSE ItemCopyContents(h[base], new_name, mods))]

\* "if not base_entry: return None", else the modified deep copy
CopyOf(l, h, base, new_name, mods) ==
    IF base = NoEntry THEN [entry |-> NoEntry, base |-> NoEntry, heap |-> h]
    ELSE CopyAt(l, h, base, DeepCopyAddr(h, base), new_name, mods)

\* copy_for_modification(name, new_name, modifications, preferred_source) of
\* library l: the address returned (NoEntry for None) and the heap afterwards
copy_for_modification(l, h, ix, name, new_name, mods, preferred_source) ==
    CopyOf(l, h, find_by_name(h, ix, name, preferred_source), new_name, mods)

(***************************************************************************)
(* difflib.SequenceMatcher(None, a, b).ratio(), as the pair                *)
(* <<2 * matches, len(a) + len(b)>>; strings are 0-based and ranges        *)
(* half-open as in difflib.  (No junk: autojunk needs len(b) >= 200.)      *)
(***************************************************************************)
RECURSIVE RunLength(_, _, _, _, _, _)
RunLength(a, b, i, j, ahi, bhi) ==
    IF i < ahi /\ j < bhi /\ a[i + 1] = b[j + 1]
    THEN 1 + RunLength(a, b, i + 1, j + 1, ahi, bhi)
    ELSE 0

\* the common blocks <<i, j, size>> of a[alo:ahi] and b[blo:bhi], each
\* extended as far right as it goes
Blocks(a, b, alo, ahi, blo, bhi) ==
    {<<p[1], p[2], RunLength(a, b, p[1], p[2], ahi, bhi)>> :
        p \in {q \in (alo..(ahi - 1)) \X (blo..(bhi - 1)) : a[q[1] + 1] = b[q[2] + 1]}}

\* block p is to be preferred to block q: longer, or as long and earlier in
\* a, or as long, at the same place in a and not later in b
BetterBlock(p, q) ==
    \/ p[3] > q[3]
    \/ p[3] = q[3] /\ p[1] < q[1]
    \/ p[3] = q[3] /\ p[1] = q[1] /\ p[2] <= q[2]

BestBlock(blocks, alo, blo) ==
    IF blocks = {} THEN <<alo, blo, 0>>
    ELSE CHOOSE p \in blocks : \A q \in blocks : BetterBlock(p, q)

\* find_longest_match(alo, ahi, blo, bhi) as <<i, j, size>>
LongestMatch(a, b, alo, ahi, blo, bhi) ==
    BestBlock(Blocks(a, b, alo, ahi, blo, bhi), alo, blo)

\* the sum of the sizes of get_matching_blocks(): the longest block m, and
\* the matches to its left and to its right
RECURSIVE Matches(_, _, _, _, _, _)
MatchesAround(a, b, alo, ahi, blo, bhi, m) ==
    IF m[3] = 0 THEN 0
    ELSE m[3] + Matches(a, b, alo, m[1], blo, m[2])
              + Matches(a, b, m[1] + m[3], ahi, m[2] + m[3], bhi)

Matches(a, b, alo, ahi, blo, bhi) ==
    IF alo >= ahi \/ blo >= bhi THEN 0
    ELSE MatchesAround(a, b, alo, ahi, blo, bhi, LongestMatch(a, b, alo, ahi, blo, bhi))

\* ratio(): 2.0 * matches / length, 1.0 when both strings are empty
Ratio(a, b) ==
    IF Len(a) + Len(b) = 0 THEN <<1, 1>>
    ELSE <<2 * Matches(a, b, 0, Len(a), 0, Len(b)), Len(a) + Len(b)>>

\* _similarity(a, b)
Similarity(a, b) == Ratio(Lower(a), Lower(b))

\* thresholds, in hundredths
FUZZY_THRESHOLD == 80

AUTO_ACCEPT_THRESHOLD == 90

DEFAULT_LEVEL == 5

\* a score within a tenth of the threshold passes
ScoreNearly(score, threshold) == score[1] * 100 >= (threshold - 10) * score[2]

\* score >= threshold / 100
ScoreAtLeast(score, threshold) == score[1] * 100 >= threshold * score[2]

\* score x > score y
ScoreGreater(x, y) == x[1] * y[2] > y[1] * x[2]

\* the first position of ms holding a best score
BestIndex(ms) ==
    CHOOSE i \in DOMAIN ms :
        /\ \A j \in DOMAIN ms : ~ScoreGreater(ms[j].score, ms[i].score)
        /\ \A j \in 1..(i - 1) : ScoreGreater(ms[i].score, ms[j].score)

RemoveAt(ms, i) == SubSeq(ms, 1, i - 1) \o SubSeq(ms, i + 1, Len(ms))

\* list.sort(key=score, reverse=True): stable, best first
RECURSIVE SortByScore(_)
BestFirst(ms, top) == <<ms[top]>> \o SortByScore(RemoveAt(ms, top))

SortByScore(ms) == IF Len(ms) = 0 THEN << >> ELSE BestFirst(ms, BestIndex(ms))

\* (candidate, score) for every candidate, in the order of the candidates
Scored(name, candidates) ==
    [i \in DOMAIN candidates |->
        [name |-> candidates[i], score |-> Similarity(name, candidates[i])]]

\* the pairs whose score reaches the threshold
AtLeast(ms, threshold) ==
    SelectSeq(ms, LAMBDA m : ScoreAtLeast(m.score, threshold))

\* the matches are left in the order of the candidates
FindFuzzyMatchesUnsorted(name, candidates) ==
    AtLeast(Scored(name, candidates), FUZZY_THRESHOLD)

\* _find_fuzzy_matches(name, candidates)
FindFuzzyMatches(name, candidates) ==
    SortByScore(AtLeast(Scored(name, candidates), FUZZY_THRESHOLD))

(***************************************************************************)
(* The mapping file: professions, creatures, generic_npcs, items.          *)
(***************************************************************************)
Mappings ==
    [professions |-> (S_Warrior :> S_Warrior),
     creatures |-> (S_Warg :> S_Wolf),
     generic_npcs |-> (S_Guard :> S_Warrior),
     items |-> (S_Sword :> S_Broadsword)]

(***************************************************************************)
(* find_by_profession_and_level, match_npc, match_item.                    *)
(***************************************************************************)
\* int(npc_level_text) == level, False on ValueError
TextIsLevel(t, level) == IsStr(t) /\ IsNumeral(t.str) /\ ParseNat(t.str) = level

\* whether the entry's level field parses to level
LevelIs(d, level) ==
    /\ "level" \in DOMAIN d
    /\ IsDict(d["level"])
    /\ TextIsLevel(Get(d["level"].dict, "_text", PyStr(<<"0">>)), level)

RECURSIVE FirstAtLevel(_, _, _, _)
FirstAtLevel(h, npcs, level, i) ==
    IF i > Len(npcs) THEN NoEntry
    ELSE IF LevelIs(h[npcs[i]], level) THEN npcs[i]
    ELSE FirstAtLevel(h, npcs, level, i + 1)

find_by_profession_and_level(h, ix, profession, level) ==
    IF profession \notin DOMAIN ix.by_profession THEN NoEntry
    ELSE FirstAtLevel(h, ix.by_profession[profession], level, 1)

\* entry.get('_display_name', default)
DisplayName(h, a, default) == Get(h[a], "_display_name", PyStr(default))

NotFound(name, level_used, suggestions) ==
    [found |-> FALSE, entry |-> NoEntry, method |-> "none",
     original_name |-> name, matched_name |-> PyNone,
     suggestions |-> suggestions, level_used |-> level_used]

Found(name, a, method, matched_name, level_used) ==
    [found |-> TRUE, entry |-> a, method |-> method,
     original_name |-> name, matched_name |-> matched_name,
     suggestions |-> << >>, level_used |-> level_used]

\* [match[0] for match in fuzzy_matches[:5]]
Suggestions(fuzzy_matches) ==
    [i \in 1..(IF Len(fuzzy_matches) < 5 THEN Len(fuzzy_matches) ELSE 5) |->
        fuzzy_matches[i].name]

\* the best match is accepted whatever its score
FuzzyBestAlways(h, name, level_used, fuzzy_matches, entry) ==
    IF entry # NoEntry
    THEN Found(name, entry, "fuzzy", DisplayName(h, entry, fuzzy_matches[1].name),
               level_used)
    ELSE NotFound(name, level_used, Suggestions(fuzzy_matches))

\* the best fuzzy match and the entry found under its name
FuzzyBest(h, name, level_used, fuzzy_matches, entry) ==
    IF entry # NoEntry /\ ScoreAtLeast(fuzzy_matches[1].score, AUTO_ACCEPT_THRESHOLD)
    THEN Found(name, entry, "fuzzy", DisplayName(h, entry, fuzzy_matches[1].name),
               level_used)
    ELSE NotFound(name, level_used, Suggestions(fuzzy_matches))

FuzzyResult(h, ix, name, level_used, fuzzy_matches) ==
    IF Len(fuzzy_matches) = 0 THEN NotFound(name, level_used, << >>)
    ELSE FuzzyBest(h, name, level_used, fuzzy_matches,
                   find_by_name(h, ix, fuzzy_matches[1].name, PyNone))

\* Strategy 5 (3 for items): fuzzy matching over the canonical names
MatchFuzzy(h, ix, name, level_used) ==
    FuzzyResult(h, ix, name, level_used, FindFuzzyMatches(name, ix.by_name_order))

\* the level a template lookup uses: the caller's, or DEFAULT_LEVEL
LevelOrDefault(level) == IF IsNone(level) THEN PyInt(DEFAULT_LEVEL) ELSE level

\* Strategy 4: generic NPC types; template is the mapped name, level the
\* level determined, entry what the two lookups gave
GenericFound(h, ix, name, template, level, entry) ==
    IF entry # NoEntry
    THEN Found(name, entry, "mapped_generic", DisplayName(h, entry, template), level)
    ELSE MatchFuzzy(h, ix, name, level)

GenericAt(h, ix, name, template, level) ==
    GenericFound(h, ix, name, template, level,
                 FirstFound(find_by_profession_and_level(h, ix, template, level.int),
                            find_by_name(h, ix, template, PyNone)))

MatchGeneric(h, ix, maps, name, level) ==
    IF name \in DOMAIN maps.generic_npcs
    THEN GenericAt(h, ix, name, maps.generic_npcs[name], LevelOrDefault(level))
    ELSE MatchFuzzy(h, ix, name, level)

\* Strategy 3: creature aliases
AliasFound(h, ix, maps, name, level, entry) ==
    IF entry # NoEntry
    THEN Found(name, entry, "mapped_alias",
               DisplayName(h, entry, maps.creatures[name]), level)
    ELSE MatchGeneric(h, ix, maps, name, level)

MatchAlias(h, ix, maps, name, level) ==
    IF name \in DOMAIN maps.creatures
    THEN AliasFound(h, ix, maps, name, level,
                    find_by_name(h, ix, maps.creatures[name], PyNone))
    ELSE MatchGeneric(h, ix, maps, name, level)

\* the level of the matched name is not padded
ProfessionFoundUnpadded(h, ix, maps, name, level, entry) ==
    IF entry # NoEntry
    THEN Found(name, entry, "mapped_profession",
               PyStr(maps.professions[name] \o S_Level \o NatStr(level.int)), level)
    ELSE MatchAlias(h, ix, maps, name, level)

\* Strategy 2: profession mappings
ProfessionFound(h, ix, maps, name, level, entry) ==
    IF entry # NoEntry
    THEN Found(name, entry, "mapped_profession",
               PyStr(maps.professions[name] \o S_Level
                        \o FormatZeroPadded(level.int, 2)),
               level)
    ELSE MatchAlias(h, ix, maps, name, level)

ProfessionAt(h, ix, maps, name, level) ==
    ProfessionFound(h, ix, maps, name, level,
                    find_by_profession_and_level(h, ix, maps.professions[name],
                                                 level.int))

MatchProfession(h, ix, maps, name, level) ==
    IF name \in DOMAIN maps.professions
    THEN ProfessionAt(h, ix, maps, name, LevelOrDefault(level))
    ELSE MatchAlias(h, ix, maps, name, level)

\* the exact entry is not looked at
ExactSkipped(h, ix, maps, name, level, entry) == MatchProfession(h, ix, maps, name, level)

\* Strategy 1: exact match
ExactFound(h, ix, maps, name, level, entry) ==
    IF entry # NoEntry
    THEN Found(name, entry, "exact", DisplayName(h, entry, name), level)
    ELSE MatchProfession(h, ix, maps, name, level)

match_npc(h, ix, maps, name, level) ==
    ExactFound(h, ix, maps, name, level, find_by_name(h, ix, name, PyNone))

ItemAliasFound(h, ix, maps, name, entry) ==
    IF entry # NoEntry
    THEN Found(name, entry, "mapped_alias",
               DisplayName(h, entry, maps.items[name]), PyNone)
    ELSE MatchFuzzy(h, ix, name, PyNone)

MatchItemAlias(h, ix, maps, name) ==
    IF name \in DOMAIN maps.items
    THEN ItemAliasFound(h, ix, maps, name,
                        find_by_name(h, ix, maps.items[name], PyNone))
    ELSE MatchFuzzy(h, ix, name, PyNone)

ItemExactFound(h, ix, maps, name, entry) ==
    IF entry # NoEntry
    THEN Found(name, entry, "exact", DisplayName(h, entry, name), PyNone)
    ELSE MatchItemAlias(h, ix, maps, name)

match_item(h, ix, maps, name) ==
    ItemExactFound(h, ix, maps, name, find_by_name(h, ix, name, PyNone))

(***************************************************************************)
(* create_custom_npc, create_custom_item: the result dict and the heap.    *)
(***************************************************************************)
CustomFailed(base_match, suggestions, h) ==
    [success |-> FALSE, entry |-> NoEntry, base |-> NoEntry, based_on |-> PyNone,
     method |-> "none", suggestions |-> suggestions, base_match |-> base_match,
     heap |-> h]

\* "if custom_npc:" on what copy_for_modification returned
CustomCopied(base_match, c, h) ==
    IF c.entry # NoEntry
    THEN [success |-> TRUE, entry |-> c.entry, base |-> c.base,
          based_on |-> base_match.matched_name, method |-> base_match.method,
          suggestions |-> << >>, base_match |-> base_match, heap |-> c.heap]
    ELSE CustomFailed(base_match, << >>, h)

create_custom(l, h, ix, base_match, name, mods) ==
    IF ~base_match.found THEN CustomFailed(base_match, base_match.suggestions, h)
    ELSE CustomCopied(base_match,
                      copy_for_modification(l, h, ix, base_match.matched_name.str,
                                            name, mods, PyNone),
                      h)

create_custom_npc(h, ix, maps, name, based_on, level, mods) ==
    create_custom("npc", h, ix, match_npc(h, ix, maps, based_on, level), name, mods)

create_custom_item(h, ix, maps, name, based_on, mods) ==
    create_custom("item", h, ix, match_item(h, ix, maps, based_on), name, mods)

(***************************************************************************)
(* The weapons and defences of an NPC are dicts the code iterates and      *)
(* whose len() it takes; their contents are association lists              *)
(* <<[k |-> key, v |-> value], ...>> in insertion order, keys being        *)
(* Python strings.                                                         *)
(***************************************************************************)
OHas(w, key) == \E i \in DOMAIN w : w[i].k = key

OIndex(w, key) == CHOOSE i \in DOMAIN w : w[i].k = key

\* w[key]
OGet(w, key) == w[OIndex(w, key)].v

\* w[key] = value: an existing key keeps its place, a new key goes last
OSet(w, key, value) ==
    IF OHas(w, key) THEN [w EXCEPT ![OIndex(w, key)] = [k |-> key, v |-> value]]
    ELSE Append(w, [k |-> key, v |-> value])

\* del w[key]
ODel(w, key) ==
    LET i == OIndex(w, key)
    IN  SubSeq(w, 1, i - 1) \o SubSeq(w, i + 1, Len(w))

(***************************************************************************)
(* apply_default_weapons.                                                  *)
(***************************************************************************)
\* the least position at which sep occurs in s, 0 when it does not
FindSub(s, sep) ==
    LET ps == {i \in 1..(Len(s) - Len(sep) + 1) : SubSeq(s, i, i + Len(sep) - 1) = sep}
    IN  IF ps = {} THEN 0 ELSE CHOOSE i \in ps : \A j \in ps : i <= j

\* base_type.split(' Level ')[0] when ' Level ' is in base_type
BaseType(s) ==
    LET i == FindSub(s, S_Level)
    IN  IF i = 0 THEN s ELSE SubSeq(s, 1, i - 1)

\* data/default_weapons.yaml: base type -> its 'weapons' list
DefaultWeapons ==
    (S_Warrior :> <<[name |-> S_Broadsword, slot |-> S_melee, ob_modifier |-> 5],
                    [name |-> S_Shield, slot |-> S_shield, ob_modifier |-> 0]>>)

\* weapon_data.get('name', {}).get('_text', ...).lower()
WeaponName(wd) ==
    LET n == Get(wd, "name", PyDict(EmptyDict))
    IN  IF IsDict(n) /\ "_text" \in DOMAIN n.dict THEN Lower(n.dict["_text"].str)
        ELSE S_Empty

\* the key of the last weapon whose name is one of names, None when none is
RECURSIVE PlaceholderKey(_, _, _, _)
PlaceholderKey(w, names, i, found) ==
    IF i > Len(w) THEN found
    ELSE PlaceholderKey(w, names, i + 1,
                        IF /\ w[i].k # S_Empty => w[i].k[1] # "_"
                           /\ IsDict(w[i].v)
                           /\ WeaponName(w[i].v.dict) \in names
                        THEN PyStr(w[i].k)
                        ELSE found)

\* int(ob_data.get('_text', 0)) / int(ob_data)
ObValue(ob_data) ==
    IF IsDict(ob_data)
    THEN LET t == Get(ob_data.dict, "_text", PyInt(0))
         IN  IF IsInt(t) THEN t.int ELSE ParseNat(t.str)
    ELSE IF IsInt(ob_data) THEN ob_data.int
    ELSE ParseNat(ob_data.str)

\* which weapon a default weapon replaces: the placeholder of its slot, a
\* new key for a shield, None otherwise
TargetKey(w, dw, melee_key, missile_key) ==
    IF dw.slot = S_melee /\ Truthy(melee_key) THEN melee_key
    ELSE IF dw.slot = S_missile /\ Truthy(missile_key) THEN missile_key
    ELSE IF dw.slot = S_shield THEN PyStr(S_id \o FormatZeroPadded(Len(w) + 1, 5))
    ELSE PyNone

\* base_ob: the OB of the placeholder when there is one
BaseOb(w, key) ==
    IF OHas(w, key) /\ "ob" \in DOMAIN OGet(w, key).dict
    THEN ObValue(OGet(w, key).dict["ob"])
    ELSE 0

WeaponEntry(name, ob) ==
    PyDict(("name" :> TypedRecord(S_string, name))
              @@ ("ob" :> TypedRecord(S_number, IntStr(ob))))

\* "if target_key: weapons[target_key] = {...}"
AssignOne(w, dw, target_key) ==
    IF Truthy(target_key)
    THEN OSet(w, target_key.str,
              WeaponEntry(dw.name, BaseOb(w, target_key.str) + dw.ob_modifier))
    ELSE w

\* the loop "for default_weapon in default_config['weapons']" from position i
RECURSIVE AssignWeapons(_, _, _, _, _)
AssignWeapons(w, defaults, i, melee_key, missile_key) ==
    IF i > Len(defaults) THEN w
    ELSE AssignWeapons(AssignOne(w, defaults[i],
                                 TargetKey(w, defaults[i], melee_key, missile_key)),
                       defaults, i + 1, melee_key, missile_key)

\* "if missile_key and 'missile' not in weapons_to_assign: del ..."
RemoveMissile(w, defaults, missile_key) ==
    IF Truthy(missile_key) /\ ~\E i \in DOMAIN defaults : defaults[i].slot = S_missile
    THEN ODel(w, missile_key.str)
    ELSE w

ReplaceAt(w, defaults, melee_key, missile_key) ==
    RemoveMissile(AssignWeapons(w, defaults, 1, melee_key, missile_key), defaults,
                  missile_key)

\* the weapons dict after the default weapons have been applied
ReplaceWeapons(w, defaults) ==
    ReplaceAt(w, defaults, PlaceholderKey(w, {S_melee, S_weapon}, 1, PyNone),
              PlaceholderKey(w, {S_missile}, 1, PyNone))

ApplyDefaultsFor(d, base_type) ==
    IF base_type \notin DOMAIN DefaultWeapons THEN d
    ELSE SetKey(d, "weapons",
                PyDict(ReplaceWeapons(d["weapons"].dict, DefaultWeapons[base_type])))

\* the contents of npc_data after apply_default_weapons(npc_data, npc_name)
apply_default_weapons(d, npc_name) ==
    IF "weapons" \notin DOMAIN d \/ ~Truthy(d["weapons"]) THEN d
    ELSE ApplyDefaultsFor(d, BaseType(Get(d, "_based_on", PyStr(npc_name)).str))

(***************************************************************************)
(* create_npc_from_library: what it does to npc_data.  yaml_npc is the     *)
(* content entry: a function from its keys to their values.                *)
(***************************************************************************)
\* "if ob:" / "if bonus:" on the shallow copy of the item entry
WithNumber(d, key, n) ==
    IF n # 0 THEN SetKey(d, key, TypedRecord(S_number, IntStr(n))) ELSE d

\* the weapon of position idx, when the item library has it
YamlWeaponAt(h, idx, ws, weapon_result) ==
    IF weapon_result.found
    THEN <<[k |-> S_id \o FormatZeroPadded(idx, 4),
            v |-> PyDict(WithNumber(WithNumber(h[weapon_result.entry], "ob", ws.ob),
                                    "bonus", ws.bonus))]>>
    ELSE << >>

\* npc_data['weapons'] built from yaml_npc['weapons'], from position idx
RECURSIVE YamlWeapons(_, _, _, _, _)
YamlWeapons(h, iix, maps, specs, idx) ==
    IF idx > Len(specs) THEN << >>
    ELSE YamlWeaponAt(h, idx, specs[idx], match_item(h, iix, maps, specs[idx].weapon))
             \o YamlWeapons(h, iix, maps, specs, idx + 1)

\* npc_data['defences'] built from yaml_npc['defences']
YamlDefences(specs) ==
    [idx \in DOMAIN specs |->
        [k |-> S_id \o FormatZeroPadded(idx, 4),
         v |-> PyDict(("name" :> TypedRecord(S_string, specs[idx].name))
                        @@ ("melee" :> TypedRecord(S_number, IntStr(specs[idx].melee_bonus)))
                        @@ ("missile" :> TypedRecord(S_number,
                                                     IntStr(specs[idx].missile_bonus))))]]

token_fields == {"token", "picture", "token3Dflat"}

\* "if npc_name and self.default_weapons: apply_default_weapons(...)"
WithDefaultWeapons(d, npc_name) ==
    IF Truthy(npc_name) /\ DOMAIN DefaultWeapons # {}
    THEN apply_default_weapons(d, npc_name.str)
    ELSE d

\* "if yaml_npc and 'weapons' in yaml_npc"
WithYamlWeapons(h, iix, maps, d, yaml_npc) ==
    IF "weapons" \in DOMAIN yaml_npc
    THEN SetKey(d, "weapons", PyDict(YamlWeapons(h, iix, maps, yaml_npc["weapons"], 1)))
    ELSE d

\* "if yaml_npc and 'defences' in yaml_npc"
WithYamlDefences(d, yaml_npc) ==
    IF "defences" \in DOMAIN yaml_npc
    THEN SetKey(d, "defences", PyDict(YamlDefences(yaml_npc["defences"])))
    ELSE d

\* "for token_field in [...]: del npc_data[token_field]"
WithoutTokens(d) == [k \in DOMAIN d \ token_fields |-> d[k]]

\* "if 'nonid_name' not in npc_data"
WithNonidName(d, npc_name) ==
    IF "nonid_name" \notin DOMAIN d
    THEN SetKey(d, "nonid_name", TypedRecord(S_string, npc_name.str))
    ELSE d

LibraryDataNamed(h, iix, maps, d, yaml_npc, npc_name) ==
    WithNonidName(
        WithoutTokens(
            WithYamlDefences(
                WithYamlWeapons(h, iix, maps, WithDefaultWeapons(d, npc_name), yaml_npc),
                yaml_npc)),
        npc_name)

\* the contents of npc_data when create_npc_from_library returns
NpcLibraryData(h, iix, maps, d, yaml_npc) ==
    LibraryDataNamed(h, iix, maps, d, yaml_npc, Get(d, "_display_name", PyStr(S_Empty)))

(***************************************************************************)
(* The reference catalog of the runs below: NPC entries at addresses 1..4  *)
(* in load order, the item entry at address 5.                             *)
(***************************************************************************)
S_Wolf30 == <<"3", "0">>
S_W05Hits == <<"4", "5">>
S_W15Hits == <<"1", "2", "0">>
S_Ob40 == <<"4", "0">>
S_Ob20 == <<"2", "0">>

PlaceholderWeapons ==
    PyDict(<<[k |-> S_id \o FormatZeroPadded(1, 5),
              v |-> PyDict(("name" :> TypedRecord(S_string, S_Melee))
                             @@ ("ob" :> TypedRecord(S_number, S_Ob40)))],
             [k |-> S_id \o FormatZeroPadded(2, 5),
              v |-> PyDict(("name" :> TypedRecord(S_string, S_Missile))
                             @@ ("ob" :> TypedRecord(S_number, S_Ob20)))]>>)

WolfCT ==
    ("_display_name" :> PyStr(S_Wolf))
        @@ ("_reference_path" :> PyStr(S_RefWolfCT))
        @@ ("_source_module" :> PyStr(S_CreaturesTreasures))
        @@ ("name" :> TypedRecord(S_string, S_Wolf))
        @@ ("level" :> TypedRecord(S_number, <<"3">>))
        @@ ("picture" :> TypedEmpty(S_token))

WolfAL ==
    ("_display_name" :> PyStr(S_Wolf))
        @@ ("_reference_path" :> PyStr(S_RefWolfAL))
        @@ ("_source_module" :> PyStr(S_ArmsLaw))
        @@ ("name" :> TypedRecord(S_string, S_Wolf))
        @@ ("level" :> TypedRecord(S_number, <<"3">>))
        @@ ("hits" :> TypedRecord(S_number, S_Wolf30))
        @@ ("token" :> TypedRecord(S_token, S_Empty))

WarriorEntry(display, ref, level, hits) ==
    ("_display_name" :> PyStr(display))
        @@ ("_reference_path" :> PyStr(ref))
        @@ ("_source_module" :> PyStr(S_CharacterLaw))
        @@ ("name" :> TypedRecord(S_string, display))
        @@ ("nonid_name" :> TypedRecord(S_string, display))
        @@ ("profession" :> TypedRecord(S_string, S_Warrior))
        @@ ("level" :> TypedRecord(S_number, level))
        @@ ("hits" :> TypedRecord(S_number, hits))
        @@ ("description" :> TypedEmpty(S_formattedtext))
        @@ ("token" :> TypedRecord(S_token, S_Empty))
        @@ ("weapons" :> PlaceholderWeapons)

BroadswordAL ==
    ("_display_name" :> PyStr(S_Broadsword))
        @@ ("_reference_path" :> PyStr(S_RefSword))
        @@ ("_source_module" :> PyStr(S_ArmsLaw))
        @@ ("name" :> TypedRecord(S_string, S_Broadsword))
        @@ ("nonid_name" :> TypedRecord(S_string, S_Sword))
        @@ ("weight" :> TypedRecord(S_number, <<"4">>))

CatalogHeap ==
    <<WolfCT, WolfAL,
      WarriorEntry(S_WarriorLevel05, S_RefW05, <<"5">>, S_W05Hits),
      WarriorEntry(S_WarriorLevel15, S_RefW15, <<"1", "5">>, S_W15Hits),
      BroadswordAL>>

NpcCatalog == <<1, 2, 3, 4>>

ItemCatalog == <<5>>

\* both libraries loaded and indexed, nothing generated yet
InitLoaded ==
    /\ heap = CatalogHeap
    /\ loaded = heap
    /\ lib = "npc"
    /\ all_entries = NpcCatalog
    /\ pos = 1
    /\ npc_ix = BuildIndexes("npc", CatalogHeap, NpcCatalog)
    /\ item_ix = BuildIndexes("item", CatalogHeap, ItemCatalog)
    /\ InitRun

(***************************************************************************)
(* Synthesis: one call of copy_for_modification, create_custom_npc or      *)
(* create_custom_item with any of the inputs below (a call depends on the  *)
(* catalog only, so one call per behaviour shows them all), and the NPC it *)
(* returned then handed to create_npc_from_library, which changes it.      *)
(***************************************************************************)
\* override mappings for NPCs: plain values and typed records, for fields the
\* base has with a text value, has without one, or lacks
NpcMods ==
    {PyNone,
     PyDict("hits" :> PyInt(150)),
     PyDict("hits" :> TypedRecord(S_number, <<"6", "0">>)),
     PyDict(("level" :> PyInt(7)) @@ ("hits" :> PyInt(150))),
     PyDict("description" :> PyStr(S_Fang)),
     PyDict("token" :> PyStr(S_Fang)),
     PyDict("picture" :> PyStr(S_Fang)),
     PyDict("outlook" :> PyInt(1)),
     PyDict("hp" :> PyInt(50)),
     PyDict("notes" :> PyStr(S_Fang))}

ItemMods ==
    {PyNone,
     PyDict("weight" :> PyInt(2)),
     PyDict("weight" :> TypedRecord(S_number, <<"2">>))}

\* names handed to copy_for_modification
NpcCopyNames == {S_WOLF, S_WarriorLevel05, S_Dragon}

ItemCopyNames == {S_Broadsword, S_Dragon}

CopyPreferred == {PyNone, PyStr(S_CreaturesTreasures)}

\* names handed to create_custom_npc / create_custom_item as based_on
NpcBasedOn == {S_Warrior, S_Warg, S_Guard, S_Wolfe, S_Dragon}

ItemBasedOn == {S_Sword, S_Dragon}

Levels == {PyNone, PyInt(15)}

NewNames == {S_Skauril, S_OldFang}

\* npcs.yaml entries for the custom NPC: with and without weapons/defences
EmitSpecs ==
    {("name" :> S_Skauril),
     ("name" :> S_Skauril)
        @@ ("weapons" :> <<[weapon |-> S_Sword, ob |-> 50, bonus |-> 0],
                           [weapon |-> S_Dragon, ob |-> 0, bonus |-> 0]>>)
        @@ ("defences" :> <<[name |-> S_Shield, melee_bonus |-> 20,
                             missile_bonus |-> 0]>>)}

InitSynth ==
    /\ InitLoaded
    /\ content = NoContent
    /\ files = NoFiles
    /\ reference = NoReference
    /\ verbose = FALSE
    /\ errors = << >>
    /\ encounter_npcs = << >>
    /\ phase = "synth"

\* the record of a synthesized entity: where it lives, its base, its inputs
Custom(l, c, new_name, mods) ==
    IF c.entry = NoEntry THEN {}
    ELSE {[lib |-> l, entry |-> c.entry, base |-> c.base, new_name |-> new_name,
           mods |-> mods]}

CopyNpc ==
    /\ phase = "synth"
    /\ ret = NoCall
    /\ \E name \in NpcCopyNames, new_name \in NewNames, mods \in NpcMods,
          pref \in CopyPreferred :
          \E c \in {copy_for_modification("npc", heap, npc_ix, name, new_name, mods,
                                          pref)} :
              /\ heap' = c.heap
              /\ customs' = customs \cup Custom("npc", c, new_name, mods)
              /\ ret' = [op |-> "copy_for_modification", lib |-> "npc", name |-> name,
                         new_name |-> new_name, mods |-> mods, preferred |-> pref,
                         base |-> c.base, entry |-> c.entry]
    /\ UNCHANGED <<loaded, lib, files, reference, verbose, errors, content, encounter_npcs, all_entries, pos, npc_ix, item_ix, counters,
                   name_to_id, allocated, emitted, warnings, phase>>

CopyItem ==
    /\ phase = "synth"
    /\ ret = NoCall
    /\ \E name \in ItemCopyNames, new_name \in NewNames, mods \in ItemMods :
          \E c \in {copy_for_modification("item", heap, item_ix, name, new_name, mods,
                                          PyNone)} :
              /\ heap' = c.heap
              /\ customs' = customs \cup Custom("item", c, new_name, mods)
              /\ ret' = [op |-> "copy_for_modification", lib |-> "item", name |-> name,
                         new_name |-> new_name, mods |-> mods, preferred |-> PyNone,
                         base |-> c.base, entry |-> c.entry]
    /\ UNCHANGED <<loaded, lib, files, reference, verbose, errors, content, encounter_npcs, all_entries, pos, npc_ix, item_ix, counters,
                   name_to_id, allocated, emitted, warnings, phase>>

CreateCustomNpc ==
    /\ phase = "synth"
    /\ ret = NoCall
    /\ \E based_on \in NpcBasedOn, level \in Levels, new_name \in NewNames,
          mods \in NpcMods :
          \E c \in {create_custom_npc(heap, npc_ix, Mappings, new_name, based_on,
                                      level, mods)} :
              /\ heap' = c.heap
              /\ customs' = customs \cup Custom("npc", c, new_name, mods)
              /\ ret' = [op |-> "create_custom", lib |-> "npc", name |-> based_on,
                         level |-> level, new_name |-> new_name, mods |-> mods,
                         match |-> c.base_match, success |-> c.success,
                         suggestions |-> c.suggestions, base |-> c.base,
                         entry |-> c.entry]
    /\ UNCHANGED <<loaded, lib, files, reference, verbose, errors, content, encounter_npcs, all_entries, pos, npc_ix, item_ix, counters,
                   name_to_id, allocated, emitted, warnings, phase>>

CreateCustomItem ==
    /\ phase = "synth"
    /\ ret = NoCall
    /\ \E based_on \in ItemBasedOn, new_name \in NewNames, mods \in ItemMods :
          \E c \in {create_custom_item(heap, item_ix, Mappings, new_name, based_on,
                                       mods)} :
              /\ heap' = c.heap
              /\ customs' = customs \cup Custom("item", c, new_name, mods)
              /\ ret' = [op |-> "create_custom", lib |-> "item", name |-> based_on,
                         level |-> PyNone, new_name |-> new_name, mods |-> mods,
                         match |-> c.base_match, success |-> c.success,
                         suggestions |-> c.suggestions, base |-> c.base,
                         entry |-> c.entry]
    /\ UNCHANGED <<loaded, lib, files, reference, verbose, errors, content, encounter_npcs, all_entries, pos, npc_ix, item_ix, counters,
                   name_to_id, allocated, emitted, warnings, phase>>

\* the entity just returned is an NPC whose display name is still a string
EmittableCustom ==
    /\ ret.op \in {"copy_for_modification", "create_custom"}
    /\ ret.lib = "npc"
    /\ ret.entry # NoEntry
    /\ IsStr(heap[ret.entry]["_display_name"])
    /\ IsStr(heap[ret.entry]["_based_on"])

\* create_npc_from_library(result['entry'], yaml_npc=...) on the entity just
\* returned: it rewrites weapons and defences, drops the token fields and
\* adds nonid_name, all in place
EmitCustomNpc ==
    /\ phase = "synth"
    /\ EmittableCustom
    /\ \E y \in EmitSpecs :
          /\ heap' = [heap EXCEPT ![ret.entry] =
                         NpcLibraryData(heap, item_ix, Mappings, heap[ret.entry], y)]
          /\ ret' = [op |-> "create_npc_from_library", lib |-> "npc",
                     entry |-> ret.entry, base |-> ret.base, yaml |-> y]
    /\ UNCHANGED <<loaded, lib, files, reference, verbose, errors, content, encounter_npcs, all_entries, pos, npc_ix, item_ix, counters,
                   name_to_id, allocated, customs, emitted, warnings, phase>>

NextSynth == CopyNpc \/ CopyItem \/ CreateCustomNpc \/ CreateCustomItem \/ EmitCustomNpc

SpecSynth == InitSynth /\ [][NextSynth]_vars

(***************************************************************************)
(* The generation run: NPCGenerator.generate, ItemGenerator.generate_items *)
(* and generate_parcels, in the order fg_generator.main runs them.  The    *)
(* state of the loader and the generators is handed through the handlers   *)
(* as one record g.                                                        *)
(***************************************************************************)
Gen ==
    [heap |-> heap, counters |-> counters, allocated |-> allocated,
     name_to_id |-> name_to_id, customs |-> customs, emitted |-> emitted,
     warnings |-> warnings, verbose |-> verbose, ok |-> TRUE]

\* None as an identifier; no allocator returns the empty string
NoId == << >>

\* an identifier inside an f-string
IdText(id) == IF id = NoId THEN S_None ELSE id

\* f"id-{n:05d}"
FormatId(n) == S_id \o FormatZeroPadded(n, 5)

\* the counter is left as it is
SameCounter(n) == n

\* self.next_id += 1
NextCounter(n) == n + 1

\* get_next_id / get_next_item_id / get_next_parcel_id and the inline
\* allocation of parcel item entries: the id is the last of allocated[kind]
Allocated(g, kind) ==
    [g EXCEPT !.counters[kind] = NextCounter(@),
              !.allocated[kind] = Append(@, FormatId(g.counters[kind]))]

\* the id the last allocation of the kind returned
LastId(g, kind) == g.allocated[kind][Len(g.allocated[kind])]

\* self.loader.name_to_id[kind][name] = the id just allocated
Registered(g, kind, name) ==
    [g EXCEPT !.name_to_id[kind] = OSet(@, name, LastId(g, kind))]

\* print("WARNING: ..."); return None
Warned(g, kind, name) ==
    [g EXCEPT !.warnings = Append(@, [kind |-> kind, name |-> name]), !.ok = FALSE]

\* the element appended to the section root: its tag, and the entry it shows
Element(kind, id, name, entry) ==
    [kind |-> kind, id |-> id, name |-> name, entry |-> entry, links |-> << >>]

\* yaml_npc.get('modifications', {}).copy() and the top-level attributes
skip_fields == {"name", "based_on", "modifications", "tokens", "weapons", "defences",
                "group"}

YamlModifications(y) ==
    PyDict([k \in DOMAIN Get(y, "modifications", EmptyDict) \cup (DOMAIN y \ skip_fields) |->
               IF k \in DOMAIN Get(y, "modifications", EmptyDict)
               THEN y["modifications"][k] ELSE y[k]])

\* create_npc_from_library(result['entry'], yaml_npc=yaml_npc) on the entry at
\* address a, and the element tagged with the id allocated at the start
EmitNpc(g, y, a) ==
    [g EXCEPT !.heap[a] = NpcLibraryData(g.heap, item_ix, Mappings, g.heap[a], y),
              !.emitted = Append(@, Element("npc", LastId(g, "npc"), y["name"], a))]

\* the name is registered before the result is looked at
PlainNpcRegistering(g, y, result) ==
    IF ~result.found THEN Warned(Registered(g, "npc", y["name"]), "npc", y["name"])
    ELSE EmitNpc(Registered(g, "npc", y["name"]), y, result.entry)

\* Case 1 & 2: result is what find_npc returned
PlainNpc(g, y, result) ==
    IF ~result.found THEN Warned(g, "npc", y["name"])
    ELSE EmitNpc(Registered(g, "npc", y["name"]), y, result.entry)

\* the generator state once create_custom_* has returned result
WithCustom(g, l, y, result) ==
    [g EXCEPT !.heap = result.heap,
              !.customs = @ \cup {[lib |-> l, entry |-> result.entry,
                                   base |-> result.base, new_name |-> y["name"],
                                   mods |-> IF l = "npc" THEN YamlModifications(y)
                                            ELSE PyDict(Get(y, "modifications",
                                                            EmptyDict))]}]

\* Case 3: result is what create_custom_npc returned
CustomNpc(g, y, result) ==
    IF ~result.success THEN Warned(g, "npc", y["name"])
    ELSE EmitNpc(Registered(WithCustom(g, "npc", y, result), "npc", y["name"]), y,
                 result.entry)

\* create_npc_from_yaml once the id has been allocated
NpcWithId(g, y) ==
    IF "based_on" \notin DOMAIN y
    THEN PlainNpc(g, y, match_npc(g.heap, npc_ix, Mappings, y["name"],
                                  Get(y, "level", PyNone)))
    ELSE CustomNpc(g, y, create_custom_npc(g.heap, npc_ix, Mappings, y["name"],
                                           y["based_on"], Get(y, "level", PyNone),
                                           YamlModifications(y)))

create_npc_from_yaml(g, y) ==
    IF Get(y, "name", S_Empty) = S_Empty THEN Warned(g, "npc", S_Empty)
    ELSE NpcWithId(Allocated(g, "npc"), y)

\* create_item_from_library: a second id for the element itself
create_item_from_library(g, y, a) ==
    [g EXCEPT !.emitted = Append(@, Element("item", LastId(g, "item"), y["name"], a))]

\* "item_id = self.get_next_item_id()", the registration, and the element
EmitItem(g, y, a) ==
    create_item_from_library(
        Allocated(Registered(Allocated(g, "item"), "item", y["name"]), "item"), y, a)

PlainItem(g, y, result) ==
    IF ~result.found THEN Warned(g, "item", y["name"])
    ELSE EmitItem(g, y, result.entry)

CustomItem(g, y, result) ==
    IF ~result.success THEN Warned(g, "item", y["name"])
    ELSE EmitItem(WithCustom(g, "item", y, result), y, result.entry)

create_item_from_yaml(g, y) ==
    IF Get(y, "name", S_Empty) = S_Empty THEN Warned(g, "item", S_Empty)
    ELSE IF "based_on" \notin DOMAIN y
    THEN PlainItem(g, y, match_item(g.heap, item_ix, Mappings, y["name"]))
    ELSE CustomItem(g, y, create_custom_item(g.heap, item_ix, Mappings, y["name"],
                                             y["based_on"],
                                             PyDict(Get(y, "modifications", EmptyDict))))

\* the link of a parcel item entry: "item.<id>" for an item of the module's
\* item list, None for an embedded name
ItemLink(g, item_name) ==
    IF item_name # S_Empty /\ OHas(g.name_to_id["item"], item_name)
    THEN PyStr(<<"i", "t", "e", "m", ".">>
                   \o IdText(OGet(g.name_to_id["item"], item_name)))
    ELSE PyNone

\* "if self.verbose: print(Warning: Item ... in parcel but not in module item
\* list)" for an item that gets no link
ParcelItemWarned(g, item) ==
    IF g.verbose /\ ItemLink(g, item.name) = PyNone
    THEN [g EXCEPT !.warnings = Append(@, [kind |-> "parcel_item", name |-> item.name])]
    ELSE g

\* one entry of the itemlist, with the id just allocated for it
ParcelEntry(g, item) ==
    ParcelItemWarned(
        [g EXCEPT !.emitted[Len(g.emitted)].links =
                      Append(@, [id |-> LastId(g, "parcel_item_entry"),
                                 name |-> item.name,
                                 link |-> ItemLink(g, item.name)])],
        item)

\* "for item in parcel['items']" from position i
RECURSIVE ParcelEntries(_, _, _)
ParcelEntries(g, items, i) ==
    IF i > Len(items) THEN g
    ELSE ParcelEntries(ParcelEntry(Allocated(g, "parcel_item_entry"), items[i]),
                       items, i + 1)

\* the parcel element with the id just allocated
ParcelElement(g, parcel) ==
    [g EXCEPT !.emitted = Append(@, Element("parcel", LastId(g, "parcel"),
                                            parcel.name, NoEntry))]

\* the parcel's id is stored under the kind 'item' as well
ParcelUnderItemToo(g, parcel) ==
    ParcelEntries(ParcelElement(
                      [Registered(Allocated(g, "parcel"), "parcel", parcel.name)
                          EXCEPT !.name_to_id["item"] =
                                     OSet(@, parcel.name,
                                          FormatId(g.counters["parcel"]))],
                      parcel),
                  parcel.items, 1)

create_treasure_parcel(g, parcel) ==
    ParcelEntries(ParcelElement(Registered(Allocated(g, "parcel"), "parcel",
                                           parcel.name), parcel),
                  parcel.items, 1)

(***************************************************************************)
(* The content of a module: entries of npcs.yaml (and the specifications   *)
(* generate() builds from encounters), items.yaml and the parcels.         *)
(***************************************************************************)
S_Hoard == <<"H", "o", "a", "r", "d">>

S_Cache == <<"C", "a", "c", "h", "e">>

YamlNpcs ==
    {("name" :> S_Wolf),
     ("name" :> S_Dragon),
     ("name" :> S_Empty),
     ("name" :> S_Warrior) @@ ("level" :> PyInt(5)),
     ("name" :> S_Skauril) @@ ("based_on" :> S_Warrior) @@ ("level" :> PyInt(15))
        @@ ("modifications" :> ("hits" :> PyInt(150))),
     ("name" :> S_OldFang) @@ ("based_on" :> S_Dragon),
     ("name" :> S_Wolf)
        @@ ("weapons" :> <<[weapon |-> S_Sword, ob |-> 50, bonus |-> 0]>>)
        @@ ("defences" :> <<[name |-> S_Shield, melee_bonus |-> 20,
                             missile_bonus |-> 0]>>)}

YamlItems ==
    {("name" :> S_Broadsword),
     ("name" :> S_Dragon),
     ("name" :> S_Sting) @@ ("based_on" :> S_Sword)
        @@ ("modifications" :> ("weight" :> PyInt(2)))}

\* the third parcel bears the name of the item it holds
YamlParcels ==
    {[name |-> S_Hoard, items |-> <<[name |-> S_Broadsword], [name |-> S_Dragon]>>],
     [name |-> S_Cache, items |-> << >>],
     [name |-> S_Broadsword, items |-> <<[name |-> S_Broadsword]>>]}

\* the run starts with the NPC section
InitGen ==
    /\ InitLoaded
    /\ content = NoContent
    /\ files = NoFiles
    /\ reference = NoReference
    /\ verbose \in BOOLEAN
    /\ errors = << >>
    /\ encounter_npcs = << >>
    /\ phase = "npc"

\* the generator state g becomes the state
Becomes(g, op, name) ==
    /\ heap' = g.heap
    /\ counters' = g.counters
    /\ allocated' = g.allocated
    /\ name_to_id' = g.name_to_id
    /\ customs' = g.customs
    /\ emitted' = g.emitted
    /\ warnings' = g.warnings
    /\ ret' = [op |-> op, name |-> name, ok |-> g.ok]
    /\ pos' = pos + 1
    /\ UNCHANGED <<loaded, lib, files, reference, verbose, errors, content, encounter_npcs, all_entries, npc_ix, item_ix, phase>>

\* one iteration of "for yaml_npc in self.loader.npcs"
CreateNpcFromYaml ==
    /\ phase = "npc"
    /\ pos <= MaxNpcs
    /\ \E y \in YamlNpcs : Becomes(create_npc_from_yaml(Gen, y), "create_npc_from_yaml",
                                   y["name"])

\* one iteration of "for yaml_item in self.loader.items"
CreateItemFromYaml ==
    /\ phase = "item"
    /\ pos <= MaxItems
    /\ \E y \in YamlItems : Becomes(create_item_from_yaml(Gen, y),
                                    "create_item_from_yaml", y["name"])

\* one iteration of "for parcel in self.loader.parcels"
CreateTreasureParcel ==
    /\ phase = "parcel"
    /\ pos <= MaxParcels
    /\ \E parcel \in YamlParcels : Becomes(create_treasure_parcel(Gen, parcel),
                                           "create_treasure_parcel", parcel.name)

NextPhaseOf == [npc |-> "item", item |-> "parcel", parcel |-> "done"]

\* the loop of a section is over: main goes on to the next section
NextPhase ==
    /\ phase \in DOMAIN NextPhaseOf
    /\ phase' = NextPhaseOf[phase]
    /\ pos' = 1
    /\ ret' = NoCall
    /\ UNCHANGED <<heap, loaded, lib, files, reference, verbose, errors, content, encounter_npcs, all_entries, npc_ix, item_ix, counters,
                   name_to_id, allocated, customs, emitted, warnings>>

Next == CreateNpcFromYaml \/ CreateItemFromYaml \/ CreateTreasureParcel \/ NextPhase

Spec == InitGen /\ [][Next]_vars

(***************************************************************************)
(* The whole run of fg_generator.main on one module: the validation pass,  *)
(* then the battle, story, NPC, item, parcel and image sections in main's  *)
(* order.  The module's content is loaded before the run starts.           *)
(***************************************************************************)
S_Ambush == <<"A", "m", "b", "u", "s", "h">>

S_Lair == <<"L", "a", "i", "r">>

S_Patrol == <<"P", "a", "t", "r", "o", "l">>

S_Intro == <<"I", "n", "t", "r", "o">>

S_Loot == <<"L", "o", "o", "t">>

S_Map == <<"M", "a", "p">>

S_npcDot == <<"n", "p", "c", ".">>

S_referenceNpcs == <<"r", "e", "f", "e", "r", "e", "n", "c", "e", ".", "n", "p", "c", "s", ".">>

S_AtCharacterLaw == <<"@">> \o S_CharacterLaw

\* registry.get(name)
RegistryGet(registry, name) == IF OHas(registry, name) THEN OGet(registry, name) ELSE NoId

\* "for x in self.loader.<list>: name_to_id[kind][x['name']] = None"
RECURSIVE NullAll(_, _, _)
NullAll(registry, entries, i) ==
    IF i > Len(entries) THEN registry
    ELSE NullAll(OSet(registry, entries[i]["name"], NoId), entries, i + 1)

build_name_mappings(n2i, c) ==
    [story |-> NullAll(n2i["story"], c.stories, 1),
     encounter |-> NullAll(n2i["encounter"], c.encounters, 1),
     npc |-> NullAll(n2i["npc"], c.npcs, 1),
     item |-> NullAll(n2i["item"], c.items, 1),
     parcel |-> NullAll(n2i["parcel"], c.parcels, 1),
     image |-> NullAll(n2i["image"], c.images, 1)]

\* ReferenceLibrary.creature_exists: the name is a key of the creature or NPC
\* library
creature_exists(h, name) ==
    \E a \in {NpcCatalog[i] : i \in DOMAIN NpcCatalog} : DisplayName(h, a, S_Empty) = PyStr(name)

validate_creature_reference(h, n2i, creature_name) ==
    creature_exists(h, creature_name) \/ OHas(n2i["npc"], creature_name)

validate_encounters(h, n2i, encounters) ==
    \A i \in DOMAIN encounters :
        /\ encounters[i].name # S_Empty
        /\ encounters[i].npcs # << >>
        /\ \A j \in DOMAIN encounters[i].npcs :
              /\ "creature" \in DOMAIN encounters[i].npcs[j]
              /\ validate_creature_reference(h, n2i, encounters[i].npcs[j]["creature"])

\* log_error(message): what the message is about
ErrorOf(msg, enc_name, name) ==
    [where |-> "encounter", msg |-> msg, owner |-> enc_name, name |-> name]

\* "for i, npc_ref in enumerate(encounter['npcs'])" from position j: the
\* errors logged, two for a creature that is not known
RECURSIVE SlotErrors(_, _, _, _, _)
SlotErrors(h, n2i, enc_name, npcs, j) ==
    IF j > Len(npcs) THEN << >>
    ELSE (IF "creature" \notin DOMAIN npcs[j]
          THEN <<ErrorOf("missing 'creature' field", enc_name, S_Empty)>>
          ELSE IF ~validate_creature_reference(h, n2i, npcs[j]["creature"])
          THEN <<ErrorOf("references unknown creature", enc_name, npcs[j]["creature"]),
                 ErrorOf("Add to npcs.yaml or check spelling", enc_name,
                         npcs[j]["creature"])>>
          ELSE << >>)
         \o SlotErrors(h, n2i, enc_name, npcs, j + 1)

\* "for encounter in self.loader.encounters" from position i: the errors
\* validate_encounters logs
RECURSIVE EncounterErrors(_, _, _, _)
EncounterErrors(h, n2i, encounters, i) ==
    IF i > Len(encounters) THEN << >>
    ELSE (IF encounters[i].name = S_Empty
          THEN <<ErrorOf("missing 'name' field", S_Empty, S_Empty)>>
          ELSE IF encounters[i].npcs = << >>
          THEN <<ErrorOf("has no NPCs", encounters[i].name, S_Empty)>>
          ELSE SlotErrors(h, n2i, encounters[i].name, encounters[i].npcs, 1))
         \o EncounterErrors(h, n2i, encounters, i + 1)

\* creature_name.lower().replace(" ", "").replace("'", "")
SafeName(s) == SelectSeq(Lower(s), LAMBDA c : c \notin {" ", "'"})

get_creature_link(g, creature_name) ==
    IF OHas(g.name_to_id["npc"], creature_name)
    THEN S_npcDot \o IdText(OGet(g.name_to_id["npc"], creature_name))
    ELSE S_npcDot \o SafeName(creature_name)

\* npc_ref.get('creature') or npc_ref.get('name')
CreatureName(npc_ref) ==
    IF Get(npc_ref, "creature", S_Empty) # S_Empty THEN npc_ref["creature"]
    ELSE Get(npc_ref, "name", S_Empty)

\* npc_ref.get('display_name') or creature_name
LinkName(npc_ref) ==
    IF Get(npc_ref, "display_name", S_Empty) # S_Empty THEN npc_ref["display_name"]
    ELSE CreatureName(npc_ref)

\* the entry of the npclist with the id just allocated for it, under the
\* battle element created last
NpcListEntry(g, npc_ref) ==
    [g EXCEPT !.emitted[Len(g.emitted)].links =
                  Append(@, [id |-> LastId(g, "encounter_npc"), kind |-> "npc",
                             name |-> LinkName(npc_ref),
                             link |-> PyStr(get_creature_link(g, LinkName(npc_ref)))])]

create_npc_list_entry(g, npc_ref) == NpcListEntry(Allocated(g, "encounter_npc"), npc_ref)

\* "for npc_ref in encounter.get('npcs', [])" from position i
RECURSIVE NpcList(_, _, _)
NpcList(g, npcs, i) ==
    IF i > Len(npcs) THEN g
    ELSE NpcList(create_npc_list_entry(g, npcs[i]), npcs, i + 1)

\* the battle element with the id just allocated
BattleElement(g, encounter) ==
    [g EXCEPT !.emitted = Append(@, Element("encounter", LastId(g, "encounter"),
                                            encounter.name, NoEntry))]

create_battle(g, encounter) ==
    NpcList(BattleElement(Registered(Allocated(g, "encounter"), "encounter",
                                     encounter.name), encounter),
            encounter.npcs, 1)

\* "battle_root = ET.Element('battle')" once more: what the first loop built
\* is dropped
Discarded(g) == [g EXCEPT !.emitted = SubSeq(@, 1, Len(@) - 1)]

\* the body of the second loop of BattleGenerator.generate
generate_battle(g, encounter) ==
    NpcList(BattleElement(Registered(Allocated(g, "encounter"), "encounter",
                                     encounter.name), encounter),
            encounter.npcs, 1)

\* the registry kind a link section points into, the key of the section that
\* holds the target's name, and the prefix of the record name
LinkKinds ==
    [link_encounter |-> "encounter", link_npc |-> "npc", link_item |-> "item",
     link_parcel |-> "parcel", link_image |-> "image"]

LinkNameKey ==
    [link_encounter |-> "encounter_name", link_npc |-> "npc_name",
     link_item |-> "item_name", link_parcel |-> "parcel_name",
     link_image |-> "image_name"]

LinkPrefix ==
    [link_encounter |-> <<"b", "a", "t", "t", "l", "e", ".">>,
     link_item |-> <<"i", "t", "e", "m", ".">>,
     link_parcel |-> <<"t", "r", "e", "a", "s", "u", "r", "e", "p", "a", "r", "c", "e", "l", ".">>,
     link_image |-> <<"i", "m", "a", "g", "e", ".">>]

\* "if enc_id: link.set('recordname', f'battle.{enc_id}')"
RecordName(prefix, id) == IF id = NoId THEN PyNone ELSE PyStr(prefix \o id)

\* link_npc: result is what find_npc returned
NpcRecordName(result, npc_name, npc_id) ==
    IF result.found \/ result.suggestions # << >>
    THEN PyStr(S_referenceNpcs \o SelectSeq(Lower(npc_name), LAMBDA c : c # " ")
                   \o S_AtCharacterLaw)
    ELSE IF npc_id # NoId THEN PyStr(S_npcDot \o npc_id)
    ELSE PyStr(S_npcDot \o ReplaceSpaces(Lower(npc_name)))

LinkRecordName(g, section) ==
    IF section["type"] = "link_npc"
    THEN NpcRecordName(match_npc(g.heap, npc_ix, Mappings, section["npc_name"], PyNone),
                       section["npc_name"],
                       RegistryGet(g.name_to_id["npc"], section["npc_name"]))
    ELSE RecordName(LinkPrefix[section["type"]],
                    RegistryGet(g.name_to_id[LinkKinds[section["type"]]],
                                section[LinkNameKey[section["type"]]]))

\* the link of the block with the id just allocated, under the story
\* element created last
BlockLink(g, section) ==
    [g EXCEPT !.emitted[Len(g.emitted)].links =
                  Append(@, [id |-> LastId(g, "story_block"),
                             kind |-> LinkKinds[section["type"]],
                             name |-> section[LinkNameKey[section["type"]]],
                             link |-> LinkRecordName(g, section)])]

create_link_block(g, section) == BlockLink(Allocated(g, "story_block"), section)

create_text_block(g, section) == Allocated(g, "story_block")

\* "for section in story.get('sections', [])" from position i
RECURSIVE StoryBlocks(_, _, _)
StoryBlocks(g, sections, i) ==
    IF i > Len(sections) THEN g
    ELSE StoryBlocks(IF sections[i]["type"] \in DOMAIN LinkKinds
                     THEN create_link_block(g, sections[i])
                     ELSE create_text_block(g, sections[i]),
                     sections, i + 1)

\* the story element with the id just allocated
StoryElement(g, story) ==
    [g EXCEPT !.emitted = Append(@, Element("story", LastId(g, "story"), story.name,
                                            NoEntry))]

create_story(g, story) ==
    StoryBlocks(StoryElement(Registered(Allocated(g, "story"), "story", story.name),
                             story),
                story.sections, 1)

\* the image element with the id just allocated
ImageElement(g, image) ==
    [g EXCEPT !.emitted = Append(@, Element("image", LastId(g, "image"), image.name,
                                            NoEntry))]

create_image(g, image) ==
    ImageElement(Registered(Allocated(g, "image"), "image", image.name), image)

\* NPCGenerator.generate, Step 2: generated_npcs when Step 1 is over
GeneratedNpcs(em) == {em[i].name : i \in {j \in DOMAIN em : em[j].kind = "npc"}}

\* final_based_on
FinalBasedOn(npc_ref) ==
    IF Get(npc_ref, "display_name", S_Empty) = S_Empty THEN Get(npc_ref, "based_on", S_Empty)
    ELSE IF Get(npc_ref, "based_on", S_Empty) # S_Empty THEN npc_ref["based_on"]
    ELSE CreatureName(npc_ref)

\* key = final_name, or f"{final_name}_L{npc_ref['level']}"
EncounterKey(npc_ref) ==
    IF Truthy(Get(npc_ref, "level", PyNone))
    THEN LinkName(npc_ref) \o <<"_", "L">> \o Str(npc_ref["level"])
    ELSE LinkName(npc_ref)

NpcInfo(npc_ref) ==
    [name |-> LinkName(npc_ref), level |-> Get(npc_ref, "level", PyNone),
     based_on |-> FinalBasedOn(npc_ref)]

\* "for npc_ref in encounter.get('npcs', [])" of Step 2 from position i
RECURSIVE CollectRefs(_, _, _, _)
CollectRefs(acc, npcs, i, generated_npcs) ==
    IF i > Len(npcs) THEN acc
    ELSE CollectRefs(IF /\ LinkName(npcs[i]) # S_Empty
                        /\ LinkName(npcs[i]) \notin generated_npcs
                        /\ ~OHas(acc, EncounterKey(npcs[i]))
                     THEN OSet(acc, EncounterKey(npcs[i]), NpcInfo(npcs[i]))
                     ELSE acc,
                     npcs, i + 1, generated_npcs)

\* "for encounter in self.loader.encounters" of Step 2 from position i
RECURSIVE CollectEncounters(_, _, _, _)
CollectEncounters(acc, encounters, i, generated_npcs) ==
    IF i > Len(encounters) THEN acc
    ELSE CollectEncounters(CollectRefs(acc, encounters[i].npcs, 1, generated_npcs),
                           encounters, i + 1, generated_npcs)

\* Step 3: yaml_npc = {'name': npc_name}, with level and based_on if set
EncounterYaml(npc_info) ==
    ("name" :> npc_info.name)
        @@ (IF Truthy(npc_info.level) THEN "level" :> npc_info.level ELSE EmptyDict)
        @@ (IF npc_info.based_on # S_Empty THEN "based_on" :> npc_info.based_on
            ELSE EmptyDict)

(***************************************************************************)
(* The content of a module for the whole run.                              *)
(***************************************************************************)
MainEncounters ==
    {[name |-> S_Ambush, npcs |-> <<("creature" :> S_Wolf)>>],
     [name |-> S_Lair, npcs |-> <<("creature" :> S_Skauril)>>],
     [name |-> S_Patrol,
      npcs |-> <<("creature" :> S_Wolf) @@ ("level" :> PyInt(3)),
                 ("creature" :> S_Wolf) @@ ("level" :> PyInt(5))>>]}

MainStories ==
    {[name |-> S_Intro,
      sections |-> <<("type" :> "header") @@ ("text" :> S_Intro),
                     ("type" :> "link_encounter") @@ ("encounter_name" :> S_Ambush),
                     ("type" :> "link_item") @@ ("item_name" :> S_Broadsword)>>],
     [name |-> S_Loot,
      sections |-> <<("type" :> "link_parcel") @@ ("parcel_name" :> S_Hoard),
                     ("type" :> "link_image") @@ ("image_name" :> S_Map),
                     ("type" :> "link_npc") @@ ("npc_name" :> S_Skauril)>>]}

MainNpcs ==
    {("name" :> S_Wolf),
     ("name" :> S_Dragon),
     ("name" :> S_Skauril) @@ ("based_on" :> S_Warrior) @@ ("level" :> PyInt(15))
        @@ ("modifications" :> ("hits" :> PyInt(150)))}

MainImages == {[name |-> S_Map, file |-> S_Map]}

\* the lists of at most n entries over a set
ListsOf(S, n) == UNION {[1..k -> S] : k \in 0..n}

Modules ==
    [stories : ListsOf(MainStories, MaxStories),
     encounters : ListsOf(MainEncounters, MaxEncounters),
     npcs : ListsOf(MainNpcs, MaxNpcs),
     items : ListsOf(YamlItems, MaxItems),
     parcels : ListsOf(YamlParcels, MaxParcels),
     images : ListsOf(MainImages, MaxImages)]

\* Phase 1 and Phase 2 are over: library and module files are loaded
InitMain ==
    /\ InitLoaded
    /\ content \in Modules
    /\ files = NoFiles
    /\ reference = NoReference
    /\ verbose \in BOOLEAN
    /\ errors = << >>
    /\ encounter_npcs = << >>
    /\ phase = "validate"

\* Phase 3: ModuleValidator.validate_all; main returns 1 when it fails
ValidateAll ==
    /\ phase = "validate"
    /\ \E n2i \in {build_name_mappings(name_to_id, content)} :
          /\ name_to_id' = n2i
          /\ \E valid \in {validate_encounters(heap, n2i, content.encounters)} :
                /\ phase' = IF valid THEN "battle" ELSE "failed"
                /\ ret' = [op |-> "validate_all", name |-> S_Empty, ok |-> valid]
          /\ errors' = EncounterErrors(heap, n2i, content.encounters, 1)
    /\ pos' = 1
    /\ UNCHANGED <<heap, loaded, lib, files, reference, verbose, content, encounter_npcs, all_entries, npc_ix,
                   item_ix, counters, allocated, customs, emitted, warnings>>

\* Phase 4, first loop of BattleGenerator.generate
CreateBattle ==
    /\ phase = "battle"
    /\ pos <= Len(content.encounters)
    /\ \E g \in {create_battle(Gen, content.encounters[pos])} :
          Becomes(Discarded(g), "create_battle", content.encounters[pos].name)

\* Phase 4, second loop of BattleGenerator.generate
GenerateBattle ==
    /\ phase = "battle_entries"
    /\ pos <= Len(content.encounters)
    /\ \E g \in {generate_battle(Gen, content.encounters[pos])} :
          Becomes(g, "generate_battle", content.encounters[pos].name)

\* Phase 5: one iteration of "for story in self.loader.stories"
CreateStory ==
    /\ phase = "story"
    /\ pos <= Len(content.stories)
    /\ \E g \in {create_story(Gen, content.stories[pos])} :
          Becomes(g, "create_story", content.stories[pos].name)

\* Phase 6, Step 1: one iteration of "for yaml_npc in self.loader.npcs"
GenerateNpc ==
    /\ phase = "npc"
    /\ pos <= Len(content.npcs)
    /\ \E g \in {create_npc_from_yaml(Gen, content.npcs[pos])} :
          Becomes(g, "create_npc_from_yaml", content.npcs[pos]["name"])

\* Phase 6, Step 2: the unique NPCs of the encounters are collected
CollectEncounterNpcs ==
    /\ phase = "npc"
    /\ pos > Len(content.npcs)
    /\ encounter_npcs' = CollectEncounters(<< >>, content.encounters, 1,
                                           GeneratedNpcs(emitted))
    /\ phase' = "encounter_npc"
    /\ pos' = 1
    /\ ret' = NoCall
    /\ UNCHANGED <<heap, loaded, lib, files, reference, verbose, errors, content, all_entries, npc_ix, item_ix, counters,
                   name_to_id, allocated, customs, emitted, warnings>>

\* Phase 6, Step 3: one iteration of "for key, npc_info in encounter_npcs.items()"
GenerateEncounterNpc ==
    /\ phase = "encounter_npc"
    /\ pos <= Len(encounter_npcs)
    /\ \E g \in {create_npc_from_yaml(Gen, EncounterYaml(encounter_npcs[pos].v))} :
          Becomes(g, "create_npc_from_yaml", encounter_npcs[pos].v.name)

\* Phase 7: one iteration of "for yaml_item in self.loader.items"
GenerateItem ==
    /\ phase = "item"
    /\ pos <= Len(content.items)
    /\ \E g \in {create_item_from_yaml(Gen, content.items[pos])} :
          Becomes(g, "create_item_from_yaml", content.items[pos]["name"])

\* Phase 7: one iteration of "for parcel in self.loader.parcels"
GenerateParcel ==
    /\ phase = "parcel"
    /\ pos <= Len(content.parcels)
    /\ \E g \in {create_treasure_parcel(Gen, content.parcels[pos])} :
          Becomes(g, "create_treasure_parcel", content.parcels[pos].name)

\* Phase 8: one iteration of "for image in self.loader.images"
CreateImage ==
    /\ phase = "image"
    /\ pos <= Len(content.images)
    /\ \E g \in {create_image(Gen, content.images[pos])} :
          Becomes(g, "create_image", content.images[pos].name)

\* the list the loop of a phase runs over
PhaseList ==
    [battle |-> content.encounters, battle_entries |-> content.encounters,
     story |-> content.stories, encounter_npc |-> encounter_npcs,
     item |-> content.items, parcel |-> content.parcels, image |-> content.images]

MainPhaseOf ==
    [battle |-> "battle_entries", battle_entries |-> "story", story |-> "npc",
     encounter_npc |-> "item", item |-> "parcel", parcel |-> "image",
     image |-> "done"]

\* the loop of a phase is over: main goes on to the next phase
MainNextPhase ==
    /\ phase \in DOMAIN MainPhaseOf
    /\ pos > Len(PhaseList[phase])
    /\ phase' = MainPhaseOf[phase]
    /\ pos' = 1
    /\ ret' = NoCall
    /\ UNCHANGED <<heap, loaded, lib, files, reference, verbose, errors, content, encounter_npcs, all_entries, npc_ix,
                   item_ix, counters, name_to_id, allocated, customs, emitted,
                   warnings>>

NextMain ==
    \/ ValidateAll
    \/ CreateBattle
    \/ GenerateBattle
    \/ CreateStory
    \/ GenerateNpc
    \/ CollectEncounterNpcs
    \/ GenerateEncounterNpc
    \/ GenerateItem
    \/ GenerateParcel
    \/ CreateImage
    \/ MainNextPhase

SpecMain == InitMain /\ [][NextMain]_vars

(***************************************************************************)
(* Matching: calls of match_npc and match_item against catalogs of several *)
(* sizes and two mapping files.                                            *)
(***************************************************************************)
S_WarriorLevel5 == <<"W", "a", "r", "r", "i", "o", "r", " ", "L", "e", "v", "e", "l", " ", "5">>

S_WarriorLvl1 == <<"W", "a", "r", "r", "i", "o", "r", " ", "L", "v", "l", " ", "1">>

S_Broadswor == <<"B", "r", "o", "a", "d", "s", "w", "o", "r">>

S_Bradsord == <<"B", "r", "a", "d", "s", "o", "r", "d">>

\* the Warrior of level n as the catalog holds it
WarriorAt(n) ==
    WarriorEntry(S_Warrior \o S_Level \o FormatZeroPadded(n, 2), S_RefW05, NatStr(n),
                 S_W05Hits)

\* the catalog, and Warriors of five more levels at addresses 6 to 10
MatchHeap ==
    CatalogHeap \o <<WarriorAt(1), WarriorAt(2), WarriorAt(3), WarriorAt(4), WarriorAt(6)>>

\* the entries a library was loaded with, in load order
MatchNpcCatalogs == {<<1>>, NpcCatalog, <<1, 2, 4>>, <<3, 4, 6, 7, 8, 9, 10>>}

MatchItemCatalogs == {ItemCatalog, << >>}

\* a mapping file whose tables overlap each other and the catalog's names
OverlapMappings ==
    [professions |-> (S_Warrior :> S_Warrior) @@ (S_Guard :> S_Warrior)
                        @@ (S_Wolf :> S_Warrior),
     creatures |-> (S_Warg :> S_Wolf) @@ (S_Wolf :> S_WarriorLevel15)
                      @@ (S_Guard :> S_Wolf),
     generic_npcs |-> (S_Guard :> S_Warrior) @@ (S_Warg :> S_Warrior)
                         @@ (S_Skauril :> S_Wolf),
     items |-> (S_Sword :> S_Broadsword) @@ (S_Broadsword :> S_Sword)]

MatchMappings == {Mappings, OverlapMappings}

MatchNames ==
    {S_Wolf, S_WOLF, S_Wolfe, S_Warrior, S_Warg, S_Guard, S_Skauril, S_Dragon,
     S_WarriorLevel05, S_WarriorLevel5, S_WarriorLvl1}

MatchLevels == {PyNone, PyInt(5), PyInt(15)}

MatchItemNames == {S_Broadsword, S_Sword, S_Dragon, S_Broadswor, S_Bradsord}

InitMatch ==
    /\ heap = MatchHeap
    /\ loaded = heap
    /\ lib = "npc"
    /\ all_entries \in MatchNpcCatalogs
    /\ pos = 1
    /\ npc_ix = BuildIndexes("npc", MatchHeap, all_entries)
    /\ item_ix \in {BuildIndexes("item", MatchHeap, c) : c \in MatchItemCatalogs}
    /\ content = NoContent
    /\ files = NoFiles
    /\ reference = NoReference
    /\ verbose = FALSE
    /\ errors = << >>
    /\ encounter_npcs = << >>
    /\ phase = "match"
    /\ InitRun

\* library.find_npc(name, level)
MatchNpc ==
    /\ phase = "match"
    /\ ret = NoCall
    /\ \E name \in MatchNames, level \in MatchLevels, maps \in MatchMappings :
          ret' = [op |-> "match", lib |-> "npc", name |-> name, level |-> level,
                  maps |-> maps,
                  result |-> match_npc(heap, npc_ix, maps, name, level)]
    /\ UNCHANGED <<heap, loaded, lib, files, reference, verbose, errors, content, encounter_npcs, all_entries, pos, npc_ix,
                   item_ix, counters, name_to_id, allocated, customs, emitted,
                   warnings, phase>>

\* library.find_item(name)
MatchItem ==
    /\ phase = "match"
    /\ ret = NoCall
    /\ \E name \in MatchItemNames, maps \in MatchMappings :
          ret' = [op |-> "match", lib |-> "item", name |-> name, level |-> PyNone,
                  maps |-> maps,
                  result |-> match_item(heap, item_ix, maps, name)]
    /\ UNCHANGED <<heap, loaded, lib, files, reference, verbose, errors, content, encounter_npcs, all_entries, pos, npc_ix,
                   item_ix, counters, name_to_id, allocated, customs, emitted,
                   warnings, phase>>

NextMatch == MatchNpc \/ MatchItem

SpecMatch == InitMatch /\ [][NextMatch]_vars

(***************************************************************************)
(* Customization through the matcher: calls of library.create_custom_npc   *)
(* and create_custom_item against the catalogs above and one more, in      *)
(* which a source without a rank supplies a second "Warrior Level 05" that *)
(* is loaded before Character Law's.                                       *)
(***************************************************************************)
S_W05HomebrewHits == <<"5", "0">>

HomebrewWarrior ==
    [WarriorAt(5) EXCEPT !["_source_module"] = PyStr(S_Homebrew),
                         !["hits"] = TypedRecord(S_number, S_W05HomebrewHits)]

\* the catalog of matching and the second Warrior of level 5 at address 11
CustomHeap == MatchHeap \o <<HomebrewWarrior>>

CustomNpcCatalogs == MatchNpcCatalogs \cup {<<11, 3, 4>>}

CustomMods == {PyNone, PyDict("hits" :> PyInt(150))}

InitCustom ==
    /\ heap = CustomHeap
    /\ loaded = heap
    /\ lib = "npc"
    /\ all_entries \in CustomNpcCatalogs
    /\ pos = 1
    /\ npc_ix = BuildIndexes("npc", CustomHeap, all_entries)
    /\ item_ix \in {BuildIndexes("item", CustomHeap, c) : c \in MatchItemCatalogs}
    /\ content = NoContent
    /\ files = NoFiles
    /\ reference = NoReference
    /\ verbose = FALSE
    /\ errors = << >>
    /\ encounter_npcs = << >>
    /\ phase = "custom"
    /\ InitRun

\* library.create_custom_npc(name, based_on, level, modifications)
LibraryCreateCustomNpc ==
    /\ phase = "custom"
    /\ ret = NoCall
    /\ \E based_on \in MatchNames, level \in MatchLevels, maps \in MatchMappings,
          mods \in CustomMods :
          \E c \in {create_custom_npc(heap, npc_ix, maps, S_Skauril, based_on, level,
                                      mods)} :
              /\ heap' = c.heap
              /\ customs' = customs \cup Custom("npc", c, S_Skauril, mods)
              /\ ret' = [op |-> "create_custom", lib |-> "npc", name |-> based_on,
                         level |-> level, new_name |-> S_Skauril, mods |-> mods,
                         match |-> c.base_match, success |-> c.success,
                         suggestions |-> c.suggestions, base |-> c.base,
                         entry |-> c.entry]
    /\ UNCHANGED <<loaded, lib, files, reference, verbose, errors, content, encounter_npcs, all_entries, pos, npc_ix,
                   item_ix, counters, name_to_id, allocated, emitted, warnings, phase>>

\* library.create_custom_item(name, based_on, modifications)
LibraryCreateCustomItem ==
    /\ phase = "custom"
    /\ ret = NoCall
    /\ \E based_on \in MatchItemNames, maps \in MatchMappings, mods \in ItemMods :
          \E c \in {create_custom_item(heap, item_ix, maps, S_Sting, based_on, mods)} :
              /\ heap' = c.heap
              /\ customs' = customs \cup Custom("item", c, S_Sting, mods)
              /\ ret' = [op |-> "create_custom", lib |-> "item", name |-> based_on,
                         level |-> PyNone, new_name |-> S_Sting, mods |-> mods,
                         match |-> c.base_match, success |-> c.success,
                         suggestions |-> c.suggestions, base |-> c.base,
                         entry |-> c.entry]
    /\ UNCHANGED <<loaded, lib, files, reference, verbose, errors, content, encounter_npcs, all_entries, pos, npc_ix,
                   item_ix, counters, name_to_id, allocated, emitted, warnings, phase>>

NextCustom == LibraryCreateCustomNpc \/ LibraryCreateCustomItem

SpecCustom == InitCustom /\ [][NextCustom]_vars

(***************************************************************************)
(* Loading the reference data: Phase 1 of fg_generator.main, which loads   *)
(* the generator's ReferenceLibrary from its JSON files, and the           *)
(* construction of CompleteNPCCreatureLibrary from the sections of its     *)
(* JSON file.  A file is missing, malformed, or holds data.                *)
(***************************************************************************)
S_Rope == <<"R", "o", "p", "e">>

S_Athelas == <<"A", "t", "h", "e", "l", "a", "s">>

S_Bread == <<"B", "r", "e", "a", "d">>

S_Cart == <<"C", "a", "r", "t">>

Missing == [state |-> "missing"]

Malformed == [state |-> "malformed"]

FileWith(data) == [state |-> "ok", data |-> data]

\* the files ReferenceLibrary.load_all reads, in the order it reads them
ReferenceFiles ==
    <<"creature_npc_library.json", "arms_law_weapons.json",
      "character_law_accessories.json", "character_law_herbs.json",
      "character_law_food.json", "character_law_transport.json">>

ReferenceFileNames == {ReferenceFiles[i] : i \in DOMAIN ReferenceFiles}

\* what each file holds when it is there and well-formed
ReferenceData ==
    [f \in ReferenceFileNames |->
        CASE f = "creature_npc_library.json" ->
                 [creatures |-> {S_Wolf, S_Orc}, npcs |-> {S_Warrior}]
          [] f = "arms_law_weapons.json" -> [weapons |-> <<S_Broadsword, S_Bow>>]
          [] f = "character_law_accessories.json" -> [items |-> <<S_Rope>>]
          [] f = "character_law_herbs.json" -> [items |-> <<S_Athelas>>]
          [] f = "character_law_food.json" -> [items |-> <<S_Bread>>]
          [] OTHER -> [items |-> <<S_Cart>>]]

CatalogFile == "npcs_and_creatures_complete.json"

\* the sections of the catalog file, in the order _build_indexes reads them
CatalogSections == <<"character_law_npcs", "arms_law_creatures", "creatures_treasures">>

CatalogSectionNames == {CatalogSections[i] : i \in DOMAIN CatalogSections}

\* the entries of each section, as addresses of CatalogHeap
CatalogData ==
    [sec \in CatalogSectionNames |->
        CASE sec = "character_law_npcs" -> <<3, 4>>
          [] sec = "arms_law_creatures" -> <<2>>
          [] OTHER -> <<1>>]

\* the catalog file with the sections secs only
CatalogWith(secs) == FileWith([sec \in secs |-> CatalogData[sec]])

\* load_json(filename): the data, None when the file is missing or json.load
\* raises
load_json(fs, filename) ==
    IF fs[filename].state = "ok" THEN fs[filename] ELSE Missing

\* "if data:"
HasData(data) == data.state = "ok"

\* {item['name'].lower() : item in items}: the keys stored for a list
LowerKeys(items) == {Lower(items[i]) : i \in DOMAIN items}

InitLoad ==
    /\ lib \in {"reference", "npc"}
    /\ IF lib = "reference"
       THEN \E miss \in SUBSET ReferenceFileNames :
               \E mal \in SUBSET (ReferenceFileNames \ miss) :
                   files = [f \in ReferenceFileNames |->
                               IF f \in miss THEN Missing
                               ELSE IF f \in mal THEN Malformed
                               ELSE FileWith(ReferenceData[f])]
       ELSE files \in [{CatalogFile} ->
                          {Missing, Malformed}
                              \cup {CatalogWith(secs) : secs \in SUBSET CatalogSectionNames}]
    /\ heap = CatalogHeap
    /\ loaded = heap
    /\ all_entries = << >>
    /\ pos = 1
    /\ npc_ix = EmptyIndex
    /\ item_ix = EmptyIndex
    /\ reference = NoReference
    /\ verbose = FALSE
    /\ errors = << >>
    /\ content = NoContent
    /\ encounter_npcs = << >>
    /\ phase = "load"
    /\ InitRun

\* the entries of the sections, in the order of the sections
RECURSIVE SectionEntries(_, _)
SectionEntries(data, i) ==
    IF i > Len(CatalogSections) THEN << >>
    ELSE data[CatalogSections[i]] \o SectionEntries(data, i + 1)

\* CompleteNPCCreatureLibrary.__init__ raises: open() or json.load() on the
\* file, or self.data[section] on a section the data lacks
ConstructionRaises(file) ==
    \/ file.state # "ok"
    \/ \E sec \in CatalogSectionNames : sec \notin DOMAIN file.data

\* CompleteNPCCreatureLibrary(json_path)
ConstructNpcLibrary ==
    /\ phase = "load"
    /\ lib = "npc"
    /\ IF ConstructionRaises(files[CatalogFile])
       THEN /\ phase' = "raised"
            /\ UNCHANGED <<all_entries, npc_ix>>
       ELSE /\ all_entries' = SectionEntries(files[CatalogFile].data, 1)
            /\ npc_ix' = BuildIndexes("npc", heap, all_entries')
            /\ phase' = "loaded"
    /\ UNCHANGED <<heap, loaded, lib, files, reference, verbose, errors, content,
                   encounter_npcs, pos, item_ix, counters, name_to_id, allocated,
                   customs, emitted, warnings, ret>>

\* "success = True" of load_all, until a loader clears it
LoadSuccess == IF ret = NoCall THEN TRUE ELSE ret.success

\* load_all: "if not self.load_creature_library(): success = False"
LoadCreatureLibrary ==
    /\ phase = "load"
    /\ lib = "reference"
    /\ \E data \in {load_json(files, "creature_npc_library.json")} :
          IF HasData(data)
          THEN /\ reference' = [reference EXCEPT
                                   !.creature_library = data.data.creatures,
                                   !.npc_library = data.data.npcs]
               /\ ret' = [op |-> "load_all", success |-> LoadSuccess]
          ELSE /\ ret' = [op |-> "load_all", success |-> FALSE]
               /\ UNCHANGED reference
    /\ phase' = "load_weapons"
    /\ UNCHANGED <<heap, loaded, lib, files, verbose, errors, content, encounter_npcs,
                   all_entries, pos, npc_ix, item_ix, counters, name_to_id, allocated,
                   customs, emitted, warnings>>

\* load_all: "if not self.load_weapons_reference(): success = False"
LoadWeaponsReference ==
    /\ phase = "load_weapons"
    /\ \E data \in {load_json(files, "arms_law_weapons.json")} :
          IF HasData(data)
          THEN /\ reference' = [reference EXCEPT
                                   !.weapons_reference = LowerKeys(data.data.weapons)]
               /\ ret' = [op |-> "load_all", success |-> LoadSuccess]
          ELSE /\ ret' = [op |-> "load_all", success |-> FALSE]
               /\ UNCHANGED reference
    /\ phase' = "load_items"
    /\ UNCHANGED <<heap, loaded, lib, files, verbose, errors, content, encounter_npcs,
                   all_entries, pos, npc_ix, item_ix, counters, name_to_id, allocated,
                   customs, emitted, warnings>>

\* the keys of one item file, none when it gave no data
ItemKeys(fs, filename) ==
    IF HasData(load_json(fs, filename))
    THEN LowerKeys(load_json(fs, filename).data.items)
    ELSE {}

\* load_all: "self.load_item_references()", whose result is not looked at
LoadItemReferences ==
    /\ phase = "load_items"
    /\ reference' = [reference EXCEPT
                        !.accessories_reference =
                            ItemKeys(files, "character_law_accessories.json"),
                        !.herbs_reference = ItemKeys(files, "character_law_herbs.json"),
                        !.food_reference = ItemKeys(files, "character_law_food.json"),
                        !.transport_reference =
                            ItemKeys(files, "character_law_transport.json")]
    /\ phase' = "load_check"
    /\ UNCHANGED <<heap, loaded, lib, files, verbose, errors, content, encounter_npcs,
                   all_entries, pos, npc_ix, item_ix, counters, name_to_id, allocated,
                   customs, emitted, warnings, ret>>

\* main, Phase 1: "if not library.load_all(): ... return 1"
LoadAllReturns ==
    /\ phase = "load_check"
    /\ phase' = IF ret.success THEN "loaded" ELSE "failed"
    /\ UNCHANGED <<heap, loaded, lib, files, reference, verbose, errors, content,
                   encounter_npcs, all_entries, pos, npc_ix, item_ix, counters,
                   name_to_id, allocated, customs, emitted, warnings, ret>>

NextLoad ==
    \/ ConstructNpcLibrary
    \/ LoadCreatureLibrary
    \/ LoadWeaponsReference
    \/ LoadItemReferences
    \/ LoadAllReturns

SpecLoad == InitLoad /\ [][NextLoad]_vars

(***************************************************************************)
(* Similarity: calls of EntityMatcher._similarity on pairs of names; ret   *)
(* keeps the calls made so far, each with its arguments and its score.     *)
(***************************************************************************)
S_Fowl == <<"F", "o", "w", "l">>

SimilarityNames == {S_Wolf, S_WOLF, S_Wolfe, S_Fowl, S_Warg, S_Empty}

InitSimilarity ==
    /\ heap = CatalogHeap
    /\ loaded = heap
    /\ lib = "npc"
    /\ all_entries = NpcCatalog
    /\ pos = 1
    /\ npc_ix = BuildIndexes("npc", CatalogHeap, NpcCatalog)
    /\ item_ix = BuildIndexes("item", CatalogHeap, ItemCatalog)
    /\ content = NoContent
    /\ files = NoFiles
    /\ reference = NoReference
    /\ verbose = FALSE
    /\ errors = << >>
    /\ encounter_npcs = << >>
    /\ phase = "similarity"
    /\ InitRun

SimilarityCalls == IF ret = NoCall THEN << >> ELSE ret.calls

\* matcher._similarity(a, b)
SimilarityCall ==
    /\ phase = "similarity"
    /\ Len(SimilarityCalls) < MaxCalls
    /\ \E a \in SimilarityNames, b \in SimilarityNames :
          ret' = [op |-> "similarity",
                  calls |-> Append(SimilarityCalls,
                                   [a |-> a, b |-> b, score |-> Similarity(a, b)])]
    /\ UNCHANGED <<heap, loaded, lib, files, reference, verbose, errors, content, encounter_npcs, all_entries, pos, npc_ix,
                   item_ix, counters, name_to_id, allocated, customs, emitted,
                   warnings, phase>>

NextSimilarity == SimilarityCall

SpecSimilarity == InitSimilarity /\ [][NextSimilarity]_vars

(***************************************************************************)
(* Properties of synthesis (SpecSynth) and of the run (Spec).              *)
(***************************************************************************)
\* a call of copy_for_modification or create_custom_* has just returned an
\* entity: ret.entry is its address, ret.base the address of its base
Synthesized ==
    /\ ret.op \in {"copy_for_modification", "create_custom"}
    /\ ret.entry # NoEntry

SynthesizedNpc == Synthesized /\ ret.lib = "npc"

\* the field names of the override mapping of the call
OverrideKeys == IF Truthy(ret.mods) THEN DOMAIN ret.mods.dict ELSE {}

\* a typed record: a dict with a declared type tag
IsTyped(v) == IsDict(v) /\ "@type" \in DOMAIN v.dict

\* C3: at the end of a generation run every catalog entry is deep-equal to
\* its state just after loading.
C3_CatalogUnchangedAtEnd ==
    phase = "done" => \A a \in DOMAIN loaded : heap[a] = loaded[a]

\* C4: copy_for_modification never mutates the base catalog entry, and no
\* later change to the returned entity changes the base: in every state of
\* synthesis, also after create_npc_from_library has rewritten the returned
\* entity in place, every catalog entry equals its loaded state and no
\* synthesized entity is a catalog entry.
C4_BaseNeverMutated ==
    /\ \A a \in DOMAIN loaded : heap[a] = loaded[a]
    /\ \A c \in customs : c.entry \notin DOMAIN loaded

\* an NPC synthesized with overrides has been emitted, which removed the
\* token field its base has
C4_Witness ==
    /\ ret.op = "create_npc_from_library"
    /\ "token" \in DOMAIN heap[ret.base]
    /\ "token" \notin DOMAIN heap[ret.entry]
    /\ \E c \in customs : c.entry = ret.entry /\ Truthy(c.mods)

\* the type tag of a record
TagOf(v) == v.dict["@type"]

\* C5 as stated: for every override whose key exists in the base NPC entry
\* as a typed record, the record's type tag in the synthesized entity equals
\* the tag it has in the base entry, whatever the tag and the field name.
C5_TypeTagPreserved ==
    SynthesizedNpc =>
        \A k \in OverrideKeys :
            (k \in DOMAIN heap[ret.base] /\ IsTyped(heap[ret.base][k])) =>
                /\ IsTyped(heap[ret.entry][k])
                /\ TagOf(heap[ret.entry][k]) = TagOf(heap[ret.base][k])

\* the base record holds no value and the table knows the field name
TableDecides(v, k) ==
    "_text" \notin DOMAIN v.dict /\ k \in number_fields \cup string_fields

\* C5 amended: for every override whose key exists in the base NPC entry as
\* a typed record, the record's type tag in the synthesized entity equals
\* the tag it has in the base entry, except that a record holding no value
\* whose field name is in the type-inference table gets the table's type.
C5_TagPreservedUnlessEmpty ==
    SynthesizedNpc =>
        \A k \in OverrideKeys :
            (k \in DOMAIN heap[ret.base] /\ IsTyped(heap[ret.base][k])) =>
                /\ IsTyped(heap[ret.entry][k])
                /\ TagOf(heap[ret.entry][k])
                      = IF TableDecides(heap[ret.base][k], k) THEN PyStr(InferredType(k))
                        ELSE TagOf(heap[ret.base][k])

\* an override has replaced the value of a record whose tag is not the one
\* the table would give its field name
C5_Witness ==
    /\ SynthesizedNpc
    /\ \E k \in OverrideKeys \cap DOMAIN heap[ret.base] :
          /\ IsTyped(heap[ret.base][k])
          /\ "_text" \in DOMAIN heap[ret.base][k].dict
          /\ TagOf(heap[ret.base][k]) # PyStr(InferredType(k))
          /\ heap[ret.entry][k] # heap[ret.base][k]
          /\ TagOf(heap[ret.entry][k]) = TagOf(heap[ret.base][k])

\* C6 as stated: every field of the base entry that is not named in the
\* override mapping is identical in the synthesized entity.
C6_UnnamedFieldsIdentical ==
    Synthesized =>
        \A k \in DOMAIN heap[ret.base] \ OverrideKeys :
            k \in DOMAIN heap[ret.entry] /\ heap[ret.entry][k] = heap[ret.base][k]

\* the fields synthesis rewrites whatever the overrides are
IdentityFields ==
    {"name", "nonid_name", "_display_name", "_id", "_reference_path", "_is_custom",
     "_based_on", "_based_on_path", "_based_on_source"}

\* C6 amended: every field of the base entry that is neither named in the
\* override mapping nor an identity or provenance field is identical in the
\* synthesized entity.
C6_UnnamedOtherFieldsIdentical ==
    Synthesized =>
        \A k \in DOMAIN heap[ret.base] \ (OverrideKeys \cup IdentityFields) :
            k \in DOMAIN heap[ret.entry] /\ heap[ret.entry][k] = heap[ret.base][k]

\* an NPC synthesized with an override of hits that changed it, from a base
\* that has other fields as well
C6_Witness ==
    /\ SynthesizedNpc
    /\ "hits" \in OverrideKeys
    /\ "hits" \in DOMAIN heap[ret.base]
    /\ heap[ret.entry]["hits"] # heap[ret.base]["hits"]
    /\ {"level", "profession", "weapons"} \subseteq DOMAIN heap[ret.base] \ OverrideKeys

\* the value an override supplies: the value of a typed record, or the
\* plain value as text
SuppliedValue(v) == IF IsDict(v) THEN v.dict["_text"] ELSE PyStr(Str(v))

\* C7: after create_custom_npc with an override for a field that exists in
\* the base entry, the field's value in the synthesized entity is the value
\* the override supplied, also when it is supplied as a typed record.
C7_OverrideValueStored ==
    (SynthesizedNpc /\ ret.op = "create_custom") =>
        \A k \in OverrideKeys \cap DOMAIN heap[ret.base] :
            /\ IsDict(heap[ret.entry][k])
            /\ Get(heap[ret.entry][k].dict, "_text", PyNone)
                  = SuppliedValue(ret.mods.dict[k])

\* C8: every synthesized entity, NPC or item, has its display name set to
\* the new name, its reference locator cleared, its is_custom flag set, and
\* provenance fields recording the base entry's display name and source.
C8_IdentityAndProvenance ==
    Synthesized =>
        /\ heap[ret.entry]["_display_name"] = PyStr(ret.new_name)
        /\ heap[ret.entry]["_reference_path"] = PyNone
        /\ heap[ret.entry]["_is_custom"] = PyBool(TRUE)
        /\ heap[ret.entry]["_based_on"] = heap[ret.base]["_display_name"]
        /\ heap[ret.entry]["_based_on_source"] = heap[ret.base]["_source_module"]

\* the numeric fields of the stated table, by the names the entries use:
\* hit points, armor value, defensive bonus, level, movement rate, reach
StatedNumberFields == {"hits", "at", "db", "level", "baserate", "reach"}

\* C9: an override naming a field absent from the base NPC entry adds a
\* typed record whose type is numeric for the numeric fields of the table
\* and string for every other field name.
C9_NewFieldTypeFromTable ==
    SynthesizedNpc =>
        \A k \in OverrideKeys \ DOMAIN heap[ret.base] :
            heap[ret.entry][k]
                = TypedRecord(IF k \in StatedNumberFields THEN S_number ELSE S_string,
                              Str(ret.mods.dict[k]))

\* the number of an id "id-NNNNN"
IdNumber(id) == ParseNat(SubSeq(id, Len(S_id) + 1, Len(id)))

\* C10: within one run the identifiers returned by successive allocations
\* for one kind are strictly increasing, hence pairwise different, whatever
\* emissions succeeded or failed.
C10_IdsStrictlyIncreasing ==
    \A k \in AllocKinds :
        \A i, j \in DOMAIN allocated[k] :
            i < j => /\ IdNumber(allocated[k][i]) < IdNumber(allocated[k][j])
                     /\ allocated[k][i] # allocated[k][j]

\* an NPC emission has failed after its id was allocated, another has
\* succeeded, and an item emission has allocated two ids
C10_Witness ==
    /\ Len(allocated["npc"]) >= 2
    /\ \E i \in DOMAIN warnings : warnings[i].kind = "npc" /\ warnings[i].name # S_Empty
    /\ \E i \in DOMAIN emitted : emitted[i].kind = "npc"
    /\ Len(allocated["item"]) >= 2


(***************************************************************************)
(* Properties of the registry name_to_id.                                  *)
(***************************************************************************)
\* a create_* call has just appended an element to its section
JustEmitted ==
    /\ ret.op \in {"create_npc_from_yaml", "create_item_from_yaml",
                   "create_treasure_parcel"}
    /\ ret.ok

LastEmitted == emitted[Len(emitted)]

\* C11: the id the registry holds under the kind and name of an element that
\* has just been emitted is the id the element carries
C11_RegistryIdIsElementId ==
    JustEmitted =>
        /\ OHas(name_to_id[LastEmitted.kind], LastEmitted.name)
        /\ OGet(name_to_id[LastEmitted.kind], LastEmitted.name) = LastEmitted.id


\* the registry kind a create_* call writes
KindOfCall == [create_npc_from_yaml |-> "npc", create_item_from_yaml |-> "item"]

\* the call that has just returned was a create_* call for an NPC or an item
\* that returned None
EmissionFailed(r) == r.op \in DOMAIN KindOfCall /\ ~r.ok

\* C13: when resolving or synthesizing an NPC or an item fails, the registry
\* holds no entry for its name afterwards that it did not hold before
C13_FailureRegistersNothing ==
    [][EmissionFailed(ret') =>
          (OHas(name_to_id'[KindOfCall[ret'.op]], ret'.name) =>
               OHas(name_to_id[KindOfCall[ret'.op]], ret'.name))]_vars

\* both a plain reference and a custom entity have failed, an NPC after its
\* id was allocated, and their names are not registered
C13_Witness ==
    /\ EmissionFailed(ret)
    /\ ret.name \in {S_Dragon, S_OldFang}
    /\ Len(warnings) = 2
    /\ warnings[1].kind = "npc"
    /\ ~OHas(name_to_id[KindOfCall[ret.op]], ret.name)


\* C12: an identifier the registry holds under a kind and name is the
\* identifier it holds under them ever after: no entry is written twice
C12_RegisteredIdNeverChanges ==
    [][\A kind \in Kinds : \A i \in DOMAIN name_to_id[kind] :
          name_to_id[kind][i].v # NoId =>
              /\ OHas(name_to_id'[kind], name_to_id[kind][i].k)
              /\ OGet(name_to_id'[kind], name_to_id[kind][i].k) = name_to_id[kind][i].v]_vars


\* C14: at every point of a run, the validation pass included, each name
\* the registry of a kind holds maps to an identifier the allocator of that
\* kind has already returned
C14_RegisteredIdsAllocated ==
    \A kind \in Kinds : \A i \in DOMAIN name_to_id[kind] :
        \E j \in DOMAIN allocated[kind] : allocated[kind][j] = name_to_id[kind][i].v


\* the record name of a link to the element of a kind that carries id
TargetPrefix ==
    [npc |-> S_npcDot, encounter |-> LinkPrefix["link_encounter"],
     item |-> LinkPrefix["link_item"], parcel |-> LinkPrefix["link_parcel"],
     image |-> LinkPrefix["link_image"]]

\* the link l names an entity the run has emitted as element e
TargetEmitted(l, e) == e.kind = l.kind /\ e.name = l.name

\* the links the generators resolve by name: the NPC slots of an encounter,
\* and the encounter, item, parcel and image links of a story
CrossReferences(e) ==
    IF e.kind = "encounter" THEN {e.links[j] : j \in DOMAIN e.links}
    ELSE IF e.kind = "story"
    THEN {e.links[j] : j \in {k \in DOMAIN e.links : e.links[k].kind # "npc"}}
    ELSE {}

\* C15: when main has run through its phases, every cross-reference whose
\* target was emitted in the run is written with the identifier of the
\* target's element
C15_CrossReferencesResolved ==
    phase = "done" =>
        \A i \in DOMAIN emitted : \A l \in CrossReferences(emitted[i]) :
            \A t \in DOMAIN emitted :
                TargetEmitted(l, emitted[t]) =>
                    \E u \in DOMAIN emitted :
                        /\ TargetEmitted(l, emitted[u])
                        /\ l.link = PyStr(TargetPrefix[l.kind] \o emitted[u].id)


(***************************************************************************)
(* Properties of matching (SpecMatch).  A call has returned: ret holds the *)
(* library, the name, the level, the mapping file and the result.          *)
(***************************************************************************)
MatchedNpc == ret.op = "match" /\ ret.lib = "npc"

MatchedItem == ret.op = "match" /\ ret.lib = "item"

\* the index of the library the call went to, and its canonical names
CallIx == IF ret.lib = "npc" THEN npc_ix ELSE item_ix

CanonicalNames == {CallIx.by_name_order[i] : i \in DOMAIN CallIx.by_name_order}

\* the level a template lookup of the call works with
TemplateLevel == IF IsNone(ret.level) THEN 5 ELSE ret.level.int

\* what each strategy finds for the call's name on its own
ExactResolves == find_by_name(heap, CallIx, ret.name, PyNone) # NoEntry

ProfessionResolves ==
    /\ ret.name \in DOMAIN ret.maps.professions
    /\ find_by_profession_and_level(heap, npc_ix, ret.maps.professions[ret.name],
                                    TemplateLevel) # NoEntry

AliasTable == IF ret.lib = "npc" THEN ret.maps.creatures ELSE ret.maps.items

AliasResolves ==
    /\ ret.name \in DOMAIN AliasTable
    /\ find_by_name(heap, CallIx, AliasTable[ret.name], PyNone) # NoEntry

GenericResolves ==
    /\ ret.name \in DOMAIN ret.maps.generic_npcs
    /\ \/ find_by_profession_and_level(heap, npc_ix, ret.maps.generic_npcs[ret.name],
                                       TemplateLevel) # NoEntry
       \/ find_by_name(heap, npc_ix, ret.maps.generic_npcs[ret.name], PyNone) # NoEntry

\* the similarity of the call's name to a canonical name reaches hundredths
Reaches(c, hundredths) == Similarity(ret.name, c) [1] * 100 >= hundredths * Similarity(ret.name, c)[2]

FuzzyResolves == \E c \in CanonicalNames : Reaches(c, 90)

\* the first strategy, in the order exact, profession, creature alias,
\* generic, fuzzy, that resolves the name
FirstStrategy ==
    IF ExactResolves THEN "exact"
    ELSE IF ProfessionResolves THEN "mapped_profession"
    ELSE IF AliasResolves THEN "mapped_alias"
    ELSE IF GenericResolves THEN "mapped_generic"
    ELSE IF FuzzyResolves THEN "fuzzy"
    ELSE "none"

\* C16: match_npc returns the result of the first strategy that resolves, in
\* the order exact, profession, creature alias, generic, fuzzy; a name with
\* an exact catalog entry is found by method exact even when an alias table
\* holds it too
C16_FirstStrategyWins ==
    MatchedNpc =>
        /\ ret.result.method = FirstStrategy
        /\ ret.result.found = (FirstStrategy # "none")
        /\ ExactResolves => ret.result.found /\ ret.result.method = "exact"

\* Wolf has an exact entry and is a key of the profession and creature tables
C16_Witness ==
    /\ MatchedNpc
    /\ ret.name = S_Wolf
    /\ ret.name \in DOMAIN ret.maps.creatures
    /\ ret.name \in DOMAIN ret.maps.professions
    /\ ProfessionResolves
    /\ ret.result.method = "exact"

\* the catalog holds an entry of profession T whose level is 5
HoldsAtLevel5(T) ==
    \E i \in DOMAIN all_entries :
        /\ "profession" \in DOMAIN heap[all_entries[i]]
        /\ heap[all_entries[i]]["profession"].dict["_text"] = PyStr(T)
        /\ LevelIs(heap[all_entries[i]], 5)

\* C17: a name the profession table maps to T, with no exact entry, matched
\* without a level against a catalog holding T at level 5, is found by method
\* mapped_profession with level_used 5 and matched_name T + " Level 05"
C17_ProfessionAtDefaultLevel ==
    (/\ MatchedNpc
     /\ IsNone(ret.level)
     /\ ~ExactResolves
     /\ ret.name \in DOMAIN ret.maps.professions
     /\ HoldsAtLevel5(ret.maps.professions[ret.name]))
    => /\ ret.result.found
       /\ ret.result.method = "mapped_profession"
       /\ ret.result.level_used = PyInt(5)
       /\ ret.result.matched_name =
              PyStr(ret.maps.professions[ret.name]
                        \o <<" ", "L", "e", "v", "e", "l", " ", "0", "5">>)

C17_Witness ==
    /\ MatchedNpc
    /\ IsNone(ret.level)
    /\ ret.name = S_Guard
    /\ ret.name \in DOMAIN ret.maps.professions
    /\ HoldsAtLevel5(S_Warrior)
    /\ ret.result.method = "mapped_profession"

\* match_npc("Wolfe") against a catalog whose only name is Wolf
WolfeAgainstWolf ==
    /\ MatchedNpc
    /\ ret.name = S_Wolfe
    /\ npc_ix.by_name_order = <<Lower(S_Wolf)>>

\* C18: against a catalog whose only entry is Wolf, match_npc("Wolfe") is
\* found by method fuzzy
C18_WolfeFoundFuzzy ==
    WolfeAgainstWolf => ret.result.found /\ ret.result.method = "fuzzy"

\* C18, amended: the similarity of Wolfe to Wolf is 8/9, below 0.90, so the
\* call returns found false, method none, and Wolf as its only suggestion
C18_WolfeSuggestedOnly ==
    WolfeAgainstWolf =>
        /\ Similarity(S_Wolfe, S_Wolf) = <<8, 9>>
        /\ ~ret.result.found
        /\ ret.result.method = "none"
        /\ ret.result.suggestions = <<Lower(S_Wolf)>>

C18_Witness == WolfeAgainstWolf /\ Len(all_entries) = 1

\* c is a canonical name no other canonical name scores above
TopScoring(c) ==
    /\ c \in CanonicalNames
    /\ \A d \in CanonicalNames :
          ~ScoreGreater(Similarity(ret.name, d), Similarity(ret.name, c))

\* neither the exact lookup nor a mapping table resolves the call's name
Unresolved ==
    /\ ret.op = "match"
    /\ ~ExactResolves
    /\ ~AliasResolves
    /\ ret.lib = "npc" => ~ProfessionResolves /\ ~GenericResolves

\* C19: when neither the exact lookup nor an alias resolves, match_npc and
\* match_item return found by method fuzzy exactly when the highest
\* similarity to a canonical name is at least 0.90, and the entry returned
\* is the canonical entry of a top-scoring name
C19_FuzzyIffNinety ==
    Unresolved =>
        /\ (ret.result.found /\ ret.result.method = "fuzzy") <=> FuzzyResolves
        /\ ret.result.found <=> ret.result.method = "fuzzy"
        /\ ret.result.found =>
              \E c \in CanonicalNames :
                  /\ TopScoring(c)
                  /\ ret.result.entry = CallIx.by_name[c]

\* both libraries have accepted a near miss, and a name at 8/9 was refused
C19_Witness ==
    /\ Unresolved
    /\ ret.result.method = "fuzzy"
    /\ ret.name \in {S_WarriorLevel5, S_Broadswor}
    /\ Len(CallIx.by_name_order) >= 1

\* the canonical names whose similarity to the call's name is at least 0.80
Qualifying == {c \in CanonicalNames : Reaches(c, 80)}

Suggested == {ret.result.suggestions[i] : i \in DOMAIN ret.result.suggestions}

\* C20: suggestions are non-empty only when found is false; then they are
\* the at most five highest-scoring canonical names of similarity at least
\* 0.80, in non-increasing order of score, with method none, and empty when
\* no name reaches 0.80
C20_SuggestionsAreTopFive ==
    ret.op = "match" =>
        /\ ret.result.found => ret.result.suggestions = << >>
        /\ ~ret.result.found =>
              /\ ret.result.method = "none"
              /\ Suggested \subseteq Qualifying
              /\ Cardinality(Suggested) = Len(ret.result.suggestions)
              /\ Len(ret.result.suggestions) =
                     (IF Cardinality(Qualifying) < 5 THEN Cardinality(Qualifying) ELSE 5)
              /\ \A i, j \in DOMAIN ret.result.suggestions :
                    i < j => ~ScoreGreater(Similarity(ret.name, ret.result.suggestions[j]),
                                           Similarity(ret.name, ret.result.suggestions[i]))
              /\ \A c \in Qualifying \ Suggested : \A d \in Suggested :
                    ~ScoreGreater(Similarity(ret.name, c), Similarity(ret.name, d))

\* seven names qualify, five are suggested, and the first in catalog order
\* is not the first suggested
C20_Witness ==
    /\ ret.op = "match"
    /\ ~ret.result.found
    /\ Cardinality(Qualifying) = 7
    /\ Len(ret.result.suggestions) = 5
    /\ ret.result.suggestions[1] # CallIx.by_name_order[1]


(***************************************************************************)
(* Properties of the similarity function (SpecSimilarity).                 *)
(***************************************************************************)
\* two scores are the same number
SameScore(x, y) == x[1] * y[2] = y[1] * x[2]

\* C21: similarity(x, x) = 1.0 for every non-empty name x, and
\* similarity(a, b) = similarity(b, a) for every pair of names: of the calls
\* made, one on twice the same non-empty name scores 1, and two calls on the
\* same names in opposite orders score the same.
C21_SimilarityReflexiveSymmetric ==
    \A i \in DOMAIN SimilarityCalls, j \in DOMAIN SimilarityCalls :
        /\ (SimilarityCalls[i].a = SimilarityCalls[i].b /\ SimilarityCalls[i].a # S_Empty)
              => SameScore(SimilarityCalls[i].score, <<1, 1>>)
        /\ (SimilarityCalls[i].a = SimilarityCalls[j].b
                /\ SimilarityCalls[i].b = SimilarityCalls[j].a)
              => SameScore(SimilarityCalls[i].score, SimilarityCalls[j].score)

(***************************************************************************)
(* Properties of customization through the matcher (SpecCustom).  A call   *)
(* has returned: ret holds its arguments, the result of the match it made  *)
(* and what it returned; base is the entry the copy was made from.         *)
(***************************************************************************)
CustomNpcReturned == ret.op = "create_custom" /\ ret.lib = "npc"

\* the entries made since the catalog was loaded
NewEntries == DOMAIN heap \ DOMAIN loaded

\* C22: whenever match_npc(basedOn, level) returns found=true, by any
\* method, create_custom_npc returns success=true and its entity is a new
\* entry copied from the very catalog entry the match result carries; when
\* the match returns found=false, create_custom_npc returns success=false
\* with the suggestions of the match and no entry has been made.
C22_CustomFollowsMatch ==
    CustomNpcReturned =>
        /\ ret.match.found =>
              /\ ret.success
              /\ ret.entry \in NewEntries
              /\ ret.base = ret.match.entry
        /\ ~ret.match.found =>
              /\ ~ret.success
              /\ ret.suggestions = ret.match.suggestions
              /\ NewEntries = {}

(***************************************************************************)
(* Properties of loading (SpecLoad).                                       *)
(***************************************************************************)
\* loading is over: main went on or returned 1, the constructor returned or
\* raised
LoadOver == phase \in {"loaded", "failed", "raised"}

\* the sources that are missing or malformed: files of the generator's
\* library, sections of the catalog file
FailedSources ==
    IF lib = "reference"
    THEN {f \in ReferenceFileNames : files[f].state # "ok"}
    ELSE IF files[CatalogFile].state # "ok" THEN CatalogSectionNames
    ELSE CatalogSectionNames \ DOMAIN files[CatalogFile].data

\* what the library holds of a file
HeldOf(f) ==
    CASE f = "creature_npc_library.json" ->
             reference.creature_library \cup reference.npc_library
      [] f = "arms_law_weapons.json" -> reference.weapons_reference
      [] f = "character_law_accessories.json" -> reference.accessories_reference
      [] f = "character_law_herbs.json" -> reference.herbs_reference
      [] f = "character_law_food.json" -> reference.food_reference
      [] OTHER -> reference.transport_reference

\* the source is there and its entries are in the library
SourceIndexed(src) ==
    IF lib = "reference"
    THEN HeldOf(src) # {}
    ELSE \A i \in DOMAIN CatalogData[src] :
            NameKey(heap[CatalogData[src][i]]) \in DOMAIN npc_ix.by_name

\* C23: if one reference source is missing or malformed, construction of
\* the catalog still completes, the entries of every other source are
\* indexed, and the run goes on to the following phase.
C23_PartialCatalogLoads ==
    (LoadOver /\ Cardinality(FailedSources) = 1) =>
        /\ phase = "loaded"
        /\ \A src \in (IF lib = "reference" THEN ReferenceFileNames
                                            ELSE CatalogSectionNames) \ FailedSources :
               SourceIndexed(src)

(***************************************************************************)
(* Properties of the validation pass (SpecMain).                           *)
(***************************************************************************)
\* the names a list of the module declares
DeclaredNames(list) == {list[i]["name"] : i \in DOMAIN list}

\* the list of the module a link of a kind points into
ContentOf(kind) ==
    CASE kind = "story" -> content.stories
      [] kind = "encounter" -> content.encounters
      [] kind = "npc" -> content.npcs
      [] kind = "item" -> content.items
      [] kind = "parcel" -> content.parcels
      [] OTHER -> content.images

Reference(where, owner, name) == [where |-> where, owner |-> owner, name |-> name]

\* a creature or NPC name the module's NPCs and the library both lack
UnknownNpc(name) ==
    name \notin DeclaredNames(content.npcs) /\ ~creature_exists(loaded, name)

\* the encounter slots whose creature is unknown
UnresolvedSlots ==
    UNION {{Reference("encounter", content.encounters[i].name,
                      content.encounters[i].npcs[j]["creature"]) :
                j \in {k \in DOMAIN content.encounters[i].npcs :
                          UnknownNpc(content.encounters[i].npcs[k]["creature"])}} :
              i \in DOMAIN content.encounters}

\* the target a story section links to, by name
LinkTarget(section) == section[LinkNameKey[section["type"]]]

UnresolvedSection(section) ==
    /\ section["type"] \in DOMAIN LinkKinds
    /\ IF section["type"] = "link_npc" THEN UnknownNpc(LinkTarget(section))
       ELSE LinkTarget(section) \notin DeclaredNames(ContentOf(LinkKinds[section["type"]]))

\* the story links whose target the module does not declare
UnresolvedStoryLinks ==
    UNION {{Reference("story", content.stories[i].name,
                      LinkTarget(content.stories[i].sections[j])) :
                j \in {k \in DOMAIN content.stories[i].sections :
                          UnresolvedSection(content.stories[i].sections[k])}} :
              i \in DOMAIN content.stories}

\* the parcel items that are not items of the module
UnresolvedParcelItems ==
    UNION {{Reference("parcel", content.parcels[i].name, content.parcels[i].items[j].name) :
                j \in {k \in DOMAIN content.parcels[i].items :
                          content.parcels[i].items[k].name
                              \notin DeclaredNames(content.items)}} :
              i \in DOMAIN content.parcels}

\* the name an NPC or item of the module is resolved by: its base template,
\* or its own name
ResolvedBy(y) == IF "based_on" \in DOMAIN y THEN y["based_on"] ELSE y["name"]

\* the NPCs and items of the module whose name or base template the catalog
\* does not resolve
UnresolvedTemplates ==
    {Reference("npc", content.npcs[i]["name"], ResolvedBy(content.npcs[i])) :
        i \in {k \in DOMAIN content.npcs :
                  ~match_npc(loaded, npc_ix, Mappings, ResolvedBy(content.npcs[k]),
                             Get(content.npcs[k], "level", PyNone)).found}}
    \cup {Reference("item", content.items[i]["name"], ResolvedBy(content.items[i])) :
            i \in {k \in DOMAIN content.items :
                      ~match_item(loaded, item_ix, Mappings,
                                  ResolvedBy(content.items[k])).found}}

UnresolvedReferences ==
    UnresolvedSlots \cup UnresolvedStoryLinks \cup UnresolvedParcelItems
        \cup UnresolvedTemplates

\* an error of the validator names the reference
Reported(u) ==
    \E i \in DOMAIN errors :
        errors[i].where = u.where /\ errors[i].owner = u.owner /\ errors[i].name = u.name

ValidationOver == phase # "validate"

\* C24: the validation pass reports every resolution failure and every
\* unresolved named link of the module (encounter slots, NPCs and items and
\* their base templates, story links, parcel items), all of them in the one
\* pass, and no generation phase starts when it reported an error.
C24_ValidationReportsAll ==
    ValidationOver =>
        /\ \A u \in UnresolvedReferences : Reported(u)
        /\ errors # << >> => phase = "failed"

(***************************************************************************)
(* Properties of the registry's kinds (SpecMain).                          *)
(***************************************************************************)
\* the entry of a name in the registry of a kind: << >> when the name is not
\* there, else the one identifier (or None) stored
EntryOf(registry, name) ==
    IF OHas(registry, name) THEN <<OGet(registry, name)>> ELSE << >>

KeysOf(registry) == {registry[i].k : i \in DOMAIN registry}

\* the kind the generator of a phase registers under
PhaseKind ==
    [battle |-> "encounter", battle_entries |-> "encounter", story |-> "story",
     npc |-> "npc", encounter_npc |-> "npc", item |-> "item", parcel |-> "parcel",
     image |-> "image"]

\* the step registers name under kind: the validation pass enters every name
\* the module declares under its own kind, a generator step the one entity
\* it handles
RegistersNow(kind, name) ==
    IF phase = "validate" THEN name \in DeclaredNames(ContentOf(kind))
    ELSE /\ phase \in DOMAIN PhaseKind
         /\ kind = PhaseKind[phase]
         /\ name = ret'.name

\* C25: registry keys are namespaced by kind: a step creates or changes the
\* entry of a name under a kind only when it registers that name under that
\* kind, so registering a name under one kind leaves the entry of the same
\* name under every other kind as it was.
C25_KindsIndependent ==
    [][\A kind \in Kinds :
          \A name \in KeysOf(name_to_id[kind]) \cup KeysOf(name_to_id'[kind]) :
              EntryOf(name_to_id'[kind], name) # EntryOf(name_to_id[kind], name)
                  => RegistersNow(kind, name)]_vars

\* a parcel and an item of the same name each hold their own entry
C25_Witness ==
    /\ phase = "done"
    /\ EntryOf(name_to_id["item"], S_Broadsword) # << >>
    /\ EntryOf(name_to_id["parcel"], S_Broadsword) # << >>
    /\ EntryOf(name_to_id["item"], S_Broadsword) # <<NoId>>
    /\ EntryOf(name_to_id["parcel"], S_Broadsword) # <<NoId>>
    /\ EntryOf(name_to_id["npc"], S_Broadsword) = << >>

(***************************************************************************)
(* Properties of unresolved cross-references (SpecMain).                   *)
(***************************************************************************)
\* the link l of the emitted element e was written without the identifier
\* of a target: a story link or a parcel entry without a record name, an
\* encounter slot with the placeholder made of the creature's name
WrittenUnresolved(e, l) ==
    CASE e.kind = "parcel" -> l.link = PyNone
      [] e.kind = "story" -> l.kind # "npc" /\ l.link = PyNone
      [] e.kind = "encounter" -> l.link = PyStr(S_npcDot \o SafeName(l.name))
      [] OTHER -> FALSE

\* the kind of the warning that tells of an unresolved link of an element
ReferenceWarning ==
    [parcel |-> "parcel_item", story |-> "story_link", encounter |-> "encounter_slot"]

WarnedOf(kind, name) ==
    \E w \in DOMAIN warnings : warnings[w].kind = kind /\ warnings[w].name = name

\* C26: whenever a generator cannot resolve a named cross-reference (a
\* story link, an encounter NPC slot, a parcel item), a warning naming the
\* reference is recorded, whether the run is verbose or not, and the run
\* goes on: generation never ends in failure.
C26_UnresolvedIsWarned ==
    /\ \A i \in DOMAIN emitted : \A j \in DOMAIN emitted[i].links :
          WrittenUnresolved(emitted[i], emitted[i].links[j])
              => WarnedOf(ReferenceWarning[emitted[i].kind], emitted[i].links[j].name)
    /\ emitted # << >> => phase # "failed"

(***************************************************************************)
(* Properties of item synthesis (SpecSynth).                               *)
(***************************************************************************)
SynthesizedItem == Synthesized /\ ret.lib = "item"

\* C27: for every override whose key exists in the base item as a typed
\* record, the synthesized item holds a typed record under that key whose
\* type tag equals the tag of the base item's record; only the value has
\* been replaced.
C27_ItemTypeTagPreserved ==
    SynthesizedItem =>
        \A k \in OverrideKeys :
            (k \in DOMAIN heap[ret.base] /\ IsTyped(heap[ret.base][k])) =>
                /\ IsTyped(heap[ret.entry][k])
                /\ TagOf(heap[ret.entry][k]) = TagOf(heap[ret.base][k])
                /\ DOMAIN heap[ret.entry][k].dict = DOMAIN heap[ret.base][k].dict

(***************************************************************************)
(* Properties of the battle section (SpecMain).                            *)
(***************************************************************************)
\* BattleGenerator.generate has returned
BattleOver == phase \notin {"validate", "failed", "battle", "battle_entries"}

\* the battle elements of the section, in document order
BattleElements == SelectSeq(emitted, LAMBDA e : e.kind = "encounter")

\* the NPC slots of the encounters from position i on
RECURSIVE SlotCount(_, _)
SlotCount(encounters, i) ==
    IF i > Len(encounters) THEN 0
    ELSE Len(encounters[i].npcs) + SlotCount(encounters, i + 1)

\* C28: when BattleGenerator.generate has run over the N encounters of a
\* module, exactly N encounter identifiers have been allocated, the k-th
\* battle element carries the k-th identifier id-0000k, and the list-entry
\* counter has advanced once per NPC slot.
C28_OneIdPerEncounter ==
    BattleOver =>
        /\ Len(allocated["encounter"]) = Len(content.encounters)
        /\ Len(BattleElements) = Len(content.encounters)
        /\ \A k \in 1..Len(BattleElements) : BattleElements[k].id = FormatId(k)
        /\ counters["encounter_npc"] = 1 + SlotCount(content.encounters, 1)

\* C29: in every result of match_npc, level_used is the level the caller
\* supplied (possibly none) unless the method is mapped_profession or
\* mapped_generic, and then it is the level of the template lookup: the
\* supplied level, or the default 5 when none was supplied.
C29_LevelUsed ==
    MatchedNpc =>
        ret.result.level_used =
            IF ret.result.method \in {"mapped_profession", "mapped_generic"}
            THEN LevelOrDefault(ret.level)
            ELSE ret.level

(***************************************************************************)
(* Letter case: calls of match_npc, one after another on the same library, *)
(* with names that differ in letter case only; ret keeps the calls made so *)
(* far, each with its arguments and its result.                            *)
(***************************************************************************)
S_warg == <<"w", "a", "r", "g">>

S_guard == <<"g", "u", "a", "r", "d">>

S_wolf == <<"w", "o", "l", "f">>

CaseNames == {S_Wolf, S_WOLF, S_wolf, S_Warg, S_warg, S_Guard, S_guard}

CaseLevels == {PyNone, PyInt(5)}

InitCase ==
    /\ heap = MatchHeap
    /\ loaded = heap
    /\ lib = "npc"
    /\ all_entries \in MatchNpcCatalogs
    /\ pos = 1
    /\ npc_ix = BuildIndexes("npc", MatchHeap, all_entries)
    /\ item_ix = BuildIndexes("item", MatchHeap, ItemCatalog)
    /\ content = NoContent
    /\ files = NoFiles
    /\ reference = NoReference
    /\ verbose = FALSE
    /\ errors = << >>
    /\ encounter_npcs = << >>
    /\ phase = "case"
    /\ InitRun

CaseCalls == IF ret = NoCall THEN << >> ELSE ret.calls

\* matcher.match_npc(name, level), the mapping file being one of the two
CaseCall ==
    /\ phase = "case"
    /\ Len(CaseCalls) < MaxCalls
    /\ \E name \in CaseNames, level \in CaseLevels, maps \in MatchMappings :
          ret' = [op |-> "matches",
                  calls |-> Append(CaseCalls,
                                   [name |-> name, level |-> level, maps |-> maps,
                                    result |-> match_npc(heap, npc_ix, maps, name,
                                                         level)])]
    /\ UNCHANGED <<heap, loaded, lib, files, reference, verbose, errors, content,
                   encounter_npcs, all_entries, pos, npc_ix, item_ix, counters,
                   name_to_id, allocated, customs, emitted, warnings, phase>>

NextCase == CaseCall

SpecCase == InitCase /\ [][NextCase]_vars

(***************************************************************************)
(* Properties of letter case in matching (SpecCase).                       *)
(***************************************************************************)
\* two calls whose names differ in letter case at most, with the same level
\* and the same mapping file
SameButCase(c, d) ==
    /\ Lower(c.name) = Lower(d.name)
    /\ c.level = d.level
    /\ c.maps = d.maps

\* C30: two calls of match_npc whose names differ in letter case only, with
\* the same level, catalog and mapping tables, return the same found flag,
\* the same method and the same entry.
C30_CaseInsensitive ==
    \A i \in DOMAIN CaseCalls, j \in DOMAIN CaseCalls :
        SameButCase(CaseCalls[i], CaseCalls[j]) =>
            /\ CaseCalls[i].result.found = CaseCalls[j].result.found
            /\ CaseCalls[i].result.method = CaseCalls[j].result.method
            /\ CaseCalls[i].result.entry = CaseCalls[j].result.entry

============================================================================
